---- MODULE Spec2Model ----
(***************************************************************************)
(* Model of the uflacs intermediate-representation builder,                *)
(* ffc/uflacs/build_uflacs_ir.py: build_uflacs_ir and analyse_dependencies.*)
(*                                                                         *)
(* Vertices of a scalar graph are numbered 1..Len(V) (the source numbers   *)
(* them 0..len(V)-1); a dependency always points to a lower number.        *)
(* Python's None is the string "None".                                     *)
(***************************************************************************)
EXTENDS Integers, Sequences, FiniteSets, TLC

\* ------------------------------------------------------------------------
\* Bounds of the explored inputs
\* ------------------------------------------------------------------------

\* Largest number of vertices of a graph handed to analyse_dependencies.
MaxV == 3

\* ------------------------------------------------------------------------
\* Table types
\* ------------------------------------------------------------------------

piecewise_ttypes == {"piecewise", "fixed", "ones", "zeros"}

uniform_ttypes == {"uniform", "fixed", "ones", "zeros"}

\* The classifications build_optimized_tables gives a terminal's table.
terminal_ttypes ==
    {"zeros", "ones", "fixed", "piecewise", "uniform", "varying", "quadrature"}

\* ------------------------------------------------------------------------
\* Scalar graphs
\* ------------------------------------------------------------------------

\* A vertex: the set of vertices it depends on (empty for a modified
\* terminal), and for a modified terminal the type of the table
\* mt_table_ranges gives it ("None" when it has no table) and whether
\* is_cellwise_constant holds of it.
Vertex(deps, ttype, cellwise) ==
    [deps |-> deps, ttype |-> ttype, cellwise |-> cellwise]

is_modified_terminal(v) == v.deps = {}

\* Every vertex that may stand at position i of a graph.
VerticesAt(i) ==
    { Vertex({}, tt, cw) : tt \in terminal_ttypes \cup {"None"}, cw \in BOOLEAN }
    \cup { Vertex(d, "None", FALSE) : d \in (SUBSET (1..(i-1))) \ {{}} }

RECURSIVE GraphsOfSize(_)
GraphsOfSize(n) ==
    IF n = 0 THEN { << >> }
    ELSE { Append(g, v) : g \in GraphsOfSize(n-1), v \in VerticesAt(n) }

modified_terminal_indices(V) ==
    { i \in 1..Len(V) : is_modified_terminal(V[i]) }

\* ------------------------------------------------------------------------
\* analyse_dependencies
\* ------------------------------------------------------------------------

\* invert_dependencies: vertex -> the vertices that depend on it directly.
invert_dependencies(V) ==
    [ i \in 1..Len(V) |-> { j \in 1..Len(V) : i \in V[j].deps } ]

\* mark_active: one backward sweep from the highest vertex to the lowest,
\* each marked vertex marking its dependencies.
RECURSIVE mark_active_from(_, _, _)
mark_active_from(V, s, marked) ==
    IF s = 0 THEN marked
    ELSE mark_active_from(V, s - 1,
                          IF s \in marked THEN marked \cup V[s].deps ELSE marked)

mark_active(V, V_targets) ==
    LET marked == mark_active_from(V, Len(V), V_targets)
    IN  [ i \in 1..Len(V) |-> IF i \in marked THEN 1 ELSE 0 ]

\* mark_image: one forward sweep from the lowest vertex to the highest,
\* each marked vertex marking the vertices that depend on it.
RECURSIVE mark_image_from(_, _, _, _)
mark_image_from(inv_deps, n, s, marked) ==
    IF s > n THEN marked
    ELSE mark_image_from(inv_deps, n, s + 1,
                         IF s \in marked THEN marked \cup inv_deps[s] ELSE marked)

mark_image(inv_deps, sources) ==
    LET n == Len(inv_deps)
        marked == mark_image_from(inv_deps, n, 1, sources)
    IN  [ i \in 1..n |-> IF i \in marked THEN 1 ELSE 0 ]

\* Variant of varying_indices that asks every terminal, with a table or
\* not, whether it is cell-wise constant.
varying_indices_ignoring_table(V) ==
    { i \in modified_terminal_indices(V) :
        \/ V[i].ttype \in {"varying", "uniform", "quadrature"}
        \/ ~V[i].cellwise }

\* The terminals from which "varying" spreads: a terminal with a table is a
\* source by the table's type alone; only a terminal without a table is
\* asked whether it is cell-wise constant.
varying_indices(V) ==
    { i \in modified_terminal_indices(V) :
        IF V[i].ttype # "None"
        THEN V[i].ttype \in {"varying", "uniform", "quadrature"}
        ELSE ~V[i].cellwise }

\* Variant of analyse_dependencies without the final "piecewise *= active".
analyse_dependencies_unmasked(V, V_targets) ==
    LET inv_deps == invert_dependencies(V)
        active   == mark_active(V, V_targets)
        image    == mark_image(inv_deps, varying_indices(V))
    IN  [ active    |-> active,
          piecewise |-> [ i \in 1..Len(V) |-> 1 - image[i] ],
          varying   |-> [ i \in 1..Len(V) |-> image[i] * active[i] ] ]

analyse_dependencies(V, V_targets) ==
    LET inv_deps == invert_dependencies(V)
        active   == mark_active(V, V_targets)
        image    == mark_image(inv_deps, varying_indices(V))
    IN  [ active    |-> active,
          piecewise |-> [ i \in 1..Len(V) |-> (1 - image[i]) * active[i] ],
          varying   |-> [ i \in 1..Len(V) |-> image[i] * active[i] ] ]


\* ------------------------------------------------------------------------
\* build_uflacs_ir: inputs
\* ------------------------------------------------------------------------

\* Largest number of quadrature degrees of a build (keys of integrands).
MaxCases == 2

\* The modified arguments a factorization may hand over (the source numbers
\* them from 0).
modified_argument_indices == {1, 2}

\* cell.topological_dimension() of an interval, a triangle, a tetrahedron.
cell_dimensions == {1, 2, 3}

\* ufl.measure
point_integral_types == {"vertex"}

custom_integral_types == {"custom", "cutcell", "interface", "overlap"}

facet_integral_types == {"exterior_facet", "interior_facet"}

integral_types ==
    {"cell", "expression"} \cup facet_integral_types
        \cup point_integral_types \cup custom_integral_types

entity_types == {"cell", "facet", "vertex"}

\* The factorization never keeps an argument whose table is all zero (the
\* terminal was replaced by the literal 0 before the graph was rebuilt).
argument_ttypes == terminal_ttypes \ {"zeros"}

\* The keys of an argument factorization of the given rank: one modified
\* argument per argument of the form, in the order of the arguments.
Keys(rank) ==
    IF rank = 0 THEN { << >> }
    ELSE IF rank = 1 THEN { <<a>> : a \in modified_argument_indices }
    ELSE { k \in modified_argument_indices \X modified_argument_indices :
             k[1] < k[2] }

\* Tuple order of Python on keys of equal length.
KeyLess(k1, k2) ==
    \E i \in 1..Len(k1) :
        /\ k1[i] < k2[i]
        /\ \A j \in 1..(i-1) : k1[j] = k2[j]

\* sorted(argument_factorization.items()): the n-th item (n from 1).
SortedKey(af, n) ==
    CHOOSE k \in DOMAIN af :
        Cardinality({ k2 \in DOMAIN af : KeyLess(k2, k) }) = n - 1

Range(f) == { f[x] : x \in DOMAIN f }

\* The modified arguments the monomials of a set of keys refer to.
ArgumentsOf(ks) == UNION { Range(k) : k \in ks }

\* The sets of keys of one factorization: at least one and at most maxTerms
\* monomials, which refer to all of the modified arguments 1..n handed over
\* with them.
KeySets(rank, maxTerms) ==
    { ks \in (SUBSET Keys(rank)) \ {{}} :
        /\ Cardinality(ks) <= maxTerms
        /\ ArgumentsOf(ks) = 1..Cardinality(ArgumentsOf(ks)) }

\* ------------------------------------------------------------------------
\* Tables: multiply_block and integrate_block
\* ------------------------------------------------------------------------

\* A table name: "FE" tables come from build_optimized_tables, "PI%d" and
\* "PM%d" are made by build_uflacs_ir.
TableName(prefix, k) == << prefix, k >>

\* A table is tbl[entity][point][dof], every index counted from 1 (the
\* source counts from 0); the three lengths are its shape.  NoTable is the
\* None that dict.get gives for a missing name.
NoTable == << >>

\* unique_tables.get(name)
table_get(tables, name) ==
    IF name \in DOMAIN tables THEN tables[name] ELSE NoTable

Max(S) == CHOOSE x \in S : \A y \in S : y <= x

\* max([1] + [tbl.shape[0] for tbl in tables if tbl is not None])
block_num_entities(tables) ==
    Max({1} \cup { Len(tables[i]) :
                     i \in { j \in DOMAIN tables : tables[j] # NoTable } })

\* The vector one argument gives for an entity and a point: ones for a
\* missing table, otherwise the row of the table, "compacted along entities
\* or points" when the table has a single entity or a single point.
block_vector(tbl, nd, entity, point_index) ==
    IF tbl = NoTable THEN [ d \in 1..nd |-> 1 ]
    ELSE tbl[IF Len(tbl) = 1 THEN 1 ELSE entity]
            [IF Len(tbl[1]) = 1 THEN 1 ELSE point_index]

\* numpy.zeros((num_entities,) + num_dofs)
ptable_zeros(num_entities, num_dofs) ==
    [ e \in 1..num_entities |->
        IF Len(num_dofs) = 0 THEN 0
        ELSE IF Len(num_dofs) = 1 THEN [ d \in 1..num_dofs[1] |-> 0 ]
        ELSE [ d1 \in 1..num_dofs[1] |-> [ d2 \in 1..num_dofs[2] |-> 0 ] ] ]

\* The block of one quadrature point: per entity the vector of the single
\* argument, or the outer product of the vectors of the two arguments.
multiply_block(point_index, unames, ttypes, unique_tables, table_num_dofs) ==
    LET tables == [ i \in DOMAIN unames |-> table_get(unique_tables, unames[i]) ]
        num_entities == block_num_entities(tables)
        num_dofs == [ i \in DOMAIN unames |-> table_num_dofs[unames[i]] ]
        vector(i, entity) ==
            block_vector(tables[i], num_dofs[i], entity, point_index)
    IN  IF \E i \in DOMAIN unames : tables[i] = NoTable /\ ttypes[i] # "ones"
        THEN [ error |-> "assert ttypes[i] == ones", ptable |-> NoTable ]
        ELSE IF Len(unames) = 0
        THEN [ error |-> "Nothing to multiply!", ptable |-> NoTable ]
        ELSE [ error |-> "none",
               ptable |->
                 [ entity \in 1..num_entities |->
                     IF Len(unames) = 1 THEN vector(1, entity)
                     ELSE [ d1 \in 1..num_dofs[1] |->
                              [ d2 \in 1..num_dofs[2] |->
                                  vector(1, entity)[d1] * vector(2, entity)[d2] ] ] ] ]

\* Variant of ptable_add that leaves the weight out.
ptable_add_unweighted(ptable, w, block, rank) ==
    [ e \in DOMAIN ptable |->
        IF rank = 1
        THEN [ d \in DOMAIN ptable[e] |-> ptable[e][d] + block[e][d] ]
        ELSE [ d1 \in DOMAIN ptable[e] |->
                 [ d2 \in DOMAIN ptable[e][d1] |->
                     ptable[e][d1][d2] + block[e][d1][d2] ] ] ]

\* ptable[...] += w * block
ptable_add(ptable, w, block, rank) ==
    [ e \in DOMAIN ptable |->
        IF rank = 1
        THEN [ d \in DOMAIN ptable[e] |-> ptable[e][d] + w * block[e][d] ]
        ELSE [ d1 \in DOMAIN ptable[e] |->
                 [ d2 \in DOMAIN ptable[e][d1] |->
                     ptable[e][d1][d2] + w * block[e][d1][d2] ] ] ]

\* "for iq, w in enumerate(weights)", from point iq on.
RECURSIVE integrate_from(_, _, _, _, _, _, _)
integrate_from(iq, acc, weights, unames, ttypes, unique_tables, table_num_dofs) ==
    IF iq > Len(weights) THEN [ error |-> "none", ptable |-> acc ]
    ELSE LET block == multiply_block(iq, unames, ttypes, unique_tables,
                                     table_num_dofs)
         IN  IF block.error # "none" THEN block
             ELSE integrate_from(iq + 1,
                                 ptable_add(acc, weights[iq], block.ptable,
                                            Len(unames)),
                                 weights, unames, ttypes, unique_tables,
                                 table_num_dofs)

integrate_block(weights, unames, ttypes, unique_tables, table_num_dofs) ==
    LET tables == [ i \in DOMAIN unames |-> table_get(unique_tables, unames[i]) ]
        num_dofs == [ i \in DOMAIN unames |-> table_num_dofs[unames[i]] ]
    IN  integrate_from(1, ptable_zeros(block_num_entities(tables), num_dofs),
                       weights, unames, ttypes, unique_tables, table_num_dofs)

\* ------------------------------------------------------------------------
\* Modified terminals: analyse_modified_terminal and ModifiedTerminal
\* ------------------------------------------------------------------------

\* Largest number of modifiers around a terminal.
MaxDepth == 3

\* A modifier of a terminal: an Indexed has its indices, fixed or not, a
\* Restricted its side.  "Variable" stands for a terminal modifier that
\* analyse_modified_terminal has no branch for, "Sum" for an operator that
\* is no terminal modifier.
Modifier(type, indices, fixed, side) ==
    [ type |-> type, indices |-> indices, fixed |-> fixed, side |-> side ]

\* The directions and components an index may have.
index_values == {0, 1}

\* The index tuples of an indexing: those of the directions and components
\* above, and one negative index.
index_tuples ==
    { << >>, << -1 >> } \cup { << i >> : i \in index_values }
        \cup { << i, j >> : i \in index_values, j \in index_values }

modifiers ==
    { Modifier("Indexed", ix, TRUE, "None") : ix \in index_tuples }
        \cup { Modifier("Indexed", << 0 >>, FALSE, "None") }
        \cup { Modifier(t, << >>, TRUE, "None") :
                 t \in {"ReferenceValue", "ReferenceGrad", "Grad", "CellAvg",
                        "FacetAvg", "Variable", "Sum"} }
        \cup { Modifier("Restricted", << >>, TRUE, side) : side \in {"+", "-"} }

\* A terminal: its shape, the shape of its reference value and the
\* symmetry of its element, a map from components to components.
Terminal(name, ufl_shape, reference_value_shape, symmetry) ==
    [ name |-> name, ufl_shape |-> ufl_shape,
      reference_value_shape |-> reference_value_shape, symmetry |-> symmetry ]

\* A scalar coefficient, vector coefficients of one and of two components
\* and a symmetric tensor coefficient of two dimensions.
terminals ==
    { Terminal("f", << >>, << >>, << >>),
      Terminal("w", << 1 >>, << 1 >>, << >>),
      Terminal("v", << 2 >>, << 2 >>, << >>),
      Terminal("S", << 2, 2 >>, << 3 >>,
               [ c \in { << 1, 0 >> } |-> << 0, 1 >> ]) }

\* The expressions of at most the given number of modifiers: the modifiers
\* from the outermost to the innermost, and the terminal.
Expressions(depth) ==
    { [ modifiers |-> m, terminal |-> t ] :
        m \in UNION { [ 1..n -> modifiers ] : n \in 0..depth },
        t \in terminals }

\* "component is None"
NoComponent == << -2 >>

RECURSIVE insert_sorted(_, _)
insert_sorted(x, s) ==
    IF s = << >> THEN << x >>
    ELSE IF x <= Head(s) THEN << x >> \o s
    ELSE << Head(s) >> \o insert_sorted(x, Tail(s))

\* Variant of sorted_derivatives that leaves the list as it is.
unsorted_derivatives(s) == s

\* tuple(sorted(s))
RECURSIVE sorted(_)
sorted(s) == IF s = << >> THEN << >> ELSE insert_sorted(Head(s), sorted(Tail(s)))

\* "Make canonical representation of derivatives"
sorted_derivatives(s) == sorted(s)

\* s[:-1]
Front(s) == SubSeq(s, 1, Len(s) - 1)

\* The order of tuples of whole numbers in Python.
TupleLess(a, b) ==
    \/ \E i \in 1..Len(a) :
          /\ i <= Len(b)
          /\ a[i] < b[i]
          /\ \A j \in 1..(i - 1) : a[j] = b[j]
    \/ /\ Len(a) < Len(b)
       /\ \A j \in 1..Len(a) : a[j] = b[j]

\* compute_indices(shape)
shape_components(shape) ==
    IF Len(shape) = 0 THEN { << >> }
    ELSE IF Len(shape) = 1 THEN { << i >> : i \in 0..(shape[1] - 1) }
    ELSE { << i, j >> : i \in 0..(shape[1] - 1), j \in 0..(shape[2] - 1) }

\* vi2si of build_component_numbering(shape, symmetry): the components that
\* the symmetry does not map are numbered in their order, a component that
\* it maps has the number of the one it is mapped to.
vi2si(shape, symmetry, component) ==
    LET c == IF component \in DOMAIN symmetry THEN symmetry[component]
             ELSE component
    IN  Cardinality({ x \in shape_components(shape) \ DOMAIN symmetry :
                        TupleLess(x, c) })

\* What the loop "while not t._ufl_is_terminal_" has found so far.
NothingFound ==
    [ error |-> "none", component |-> NoComponent,
      global_derivatives |-> << >>, local_derivatives |-> << >>,
      reference_value |-> FALSE, restriction |-> "None", averaged |-> "None" ]

\* One pass of the loop: the branch of the type of the modifier.
strip_modifier(found, m) ==
    IF m.type = "Indexed"
    THEN IF found.component # NoComponent
         THEN [ found EXCEPT !.error = "Got twice indexed terminal." ]
         ELSE IF ~m.fixed
         THEN [ found EXCEPT !.error = "Expected only fixed indices." ]
         ELSE [ found EXCEPT !.component = m.indices ]
    ELSE IF m.type = "ReferenceValue"
    THEN IF found.reference_value
         THEN [ found EXCEPT !.error = "Got twice pulled back terminal!" ]
         ELSE [ found EXCEPT !.reference_value = TRUE ]
    ELSE IF m.type = "ReferenceGrad"
    THEN IF found.component = NoComponent
         THEN [ found EXCEPT !.error = "TypeError: object of type 'NoneType' has no len()" ]
         ELSE IF Len(found.component) = 0
         THEN [ found EXCEPT !.error =
                    "Got local gradient of terminal without prior indexing." ]
         ELSE [ found EXCEPT
                  !.local_derivatives =
                      Append(@, found.component[Len(found.component)]),
                  !.component = Front(@) ]
    ELSE IF m.type = "Grad"
    THEN IF found.component = NoComponent
         THEN [ found EXCEPT !.error = "TypeError: object of type 'NoneType' has no len()" ]
         ELSE IF Len(found.component) = 0
         THEN [ found EXCEPT !.error =
                    "Got gradient of terminal without prior indexing." ]
         ELSE [ found EXCEPT
                  !.global_derivatives =
                      Append(@, found.component[Len(found.component)]),
                  !.component = Front(@) ]
    ELSE IF m.type = "Restricted"
    THEN IF found.restriction # "None"
         THEN [ found EXCEPT !.error = "Got twice restricted terminal!" ]
         ELSE [ found EXCEPT !.restriction = m.side ]
    ELSE IF m.type = "CellAvg"
    THEN IF found.averaged # "None"
         THEN [ found EXCEPT !.error = "Got twice averaged terminal!" ]
         ELSE [ found EXCEPT !.averaged = "cell" ]
    ELSE IF m.type = "FacetAvg"
    THEN IF found.averaged # "None"
         THEN [ found EXCEPT !.error = "Got twice averaged terminal!" ]
         ELSE [ found EXCEPT !.averaged = "facet" ]
    ELSE IF m.type = "Variable"
    THEN [ found EXCEPT !.error = "Missing handler for terminal modifier type" ]
    ELSE [ found EXCEPT !.error = "Unexpected type" ]

\* Variant of strip_modifiers that looks at the innermost modifier only.
strip_innermost_modifier(found, ms, i) ==
    IF Len(ms) = 0 THEN found ELSE strip_modifier(found, ms[Len(ms)])

\* The loop, from the i-th modifier on.
RECURSIVE strip_modifiers(_, _, _)
strip_modifiers(found, ms, i) ==
    IF i > Len(ms) \/ found.error # "none" THEN found
    ELSE strip_modifiers(strip_modifier(found, ms[i]), ms, i + 1)

\* Variant of component_error that finds every component in its shape.
component_error_never(component, base_shape) == "none"

\* "Assert that component is within the shape of the (reference) terminal"
component_error(component, base_shape) ==
    IF Len(component) # Len(base_shape)
    THEN "Length of component does not match rank of (reference) terminal."
    ELSE IF \E i \in 1..Len(component) :
                component[i] < 0 \/ component[i] >= base_shape[i]
    THEN "Component indices are outside value shape"
    ELSE "none"

\* Variant of derivatives_error that finds every derivative legal.
derivatives_error_never(local_derivatives, global_derivatives, reference_value) ==
    "none"

\* "Consistency check"
derivatives_error(local_derivatives, global_derivatives, reference_value) ==
    IF local_derivatives # << >> /\ ~reference_value
    THEN "Local derivatives of non-local value is not legal."
    ELSE IF global_derivatives # << >> /\ reference_value
    THEN "Global derivatives of local value is not legal."
    ELSE "none"

\* ModifiedTerminal(expr, terminal, reference_value, base_shape, component,
\* flat_component, global_derivatives, local_derivatives, averaged,
\* restriction)
ModifiedTerminal(e, terminal, reference_value, base_shape, component, flat_component, global_derivatives, local_derivatives, averaged, restriction) ==
    [ expr |-> e, terminal |-> terminal, reference_value |-> reference_value,
      base_shape |-> base_shape, component |-> component,
      flat_component |-> flat_component,
      global_derivatives |-> global_derivatives,
      local_derivatives |-> local_derivatives,
      averaged |-> averaged, restriction |-> restriction ]

NoDescriptor == << >>

\* ModifiedTerminal.as_tuple
as_tuple(self) ==
    << self.terminal, self.reference_value, self.flat_component,
       self.global_derivatives, self.local_derivatives, self.averaged,
       self.restriction >>

\* What a comparison returns, in words.
Bool(b) == IF b THEN "True" ELSE "False"

\* Variant of mt_eq that compares the component as well.
mt_eq_with_component(self, other) ==
    Bool(as_tuple(self) = as_tuple(other) /\ self.component = other.component)

\* ModifiedTerminal.__eq__, of another ModifiedTerminal
mt_eq(self, other) == Bool(as_tuple(self) = as_tuple(other))

\* ModifiedTerminal.__hash__ of the two: the hash of a tuple is a function
\* of the tuple, and two tuples may have the same.
mt_hash(self, other) ==
    IF as_tuple(self) = as_tuple(other) THEN {"equal"}
    ELSE {"equal", "different"}

\* The order of the strings that averaged and restriction may be.
string_order == << "+", "-", "cell", "facet" >>

StringLess(x, y) ==
    \E i, j \in DOMAIN string_order :
        string_order[i] = x /\ string_order[j] = y /\ i < j

\* ModifiedTerminal.__lt__: the tuples are compared at the first place
\* where they differ.  What "<" gives for two terminals is up to ufl
\* ("FIXME: Terminal is not sortable"); None is less than a string in
\* Python 2 and cannot be compared with one in Python 3.
mt_lt(self, other) ==
    LET a == as_tuple(self)
        b == as_tuple(other)
        differ == { i \in DOMAIN a : a[i] # b[i] }
        k == CHOOSE i \in differ : \A j \in differ : i <= j
    IN  IF differ = {} THEN {"False"}
        ELSE IF k = 1 THEN {"True", "False", "error"}
        ELSE IF k = 2 THEN { Bool(b[k]) }
        ELSE IF k = 3 THEN { Bool(a[k] < b[k]) }
        ELSE IF k \in {4, 5} THEN { Bool(TupleLess(a[k], b[k])) }
        ELSE IF a[k] = "None" THEN {"True", "TypeError"}
        ELSE IF b[k] = "None" THEN {"False", "TypeError"}
        ELSE { Bool(StringLess(a[k], b[k])) }

\* analyse_modified_terminal(expr): the failure, or "none" and the
\* descriptor returned.
analyse_modified_terminal(e) ==
    LET found == strip_modifiers(NothingFound, e.modifiers, 1)
        t == e.terminal
        global_derivatives == sorted_derivatives(found.global_derivatives)
        local_derivatives == sorted_derivatives(found.local_derivatives)
        reference_value == found.reference_value
        illegal == derivatives_error(local_derivatives, global_derivatives,
                                     reference_value)
        component == IF found.component = NoComponent THEN << >>
                     ELSE found.component
        base_shape == IF reference_value THEN t.reference_value_shape
                      ELSE t.ufl_shape
        symmetry == IF reference_value THEN << >> ELSE t.symmetry
        failure ==
            IF found.error # "none" THEN found.error
            ELSE IF illegal # "none" THEN illegal
            ELSE IF reference_value /\ Len(base_shape) > 1
            THEN "assert len(base_shape) <= 1"
            ELSE component_error(component, base_shape)
    IN  IF failure # "none" THEN [ error |-> failure, mt |-> NoDescriptor ]
        ELSE [ error |-> "none",
               mt |-> ModifiedTerminal(e, t, reference_value, base_shape,
                                       component,
                                       vi2si(base_shape, symmetry, component),
                                       global_derivatives, local_derivatives,
                                       found.averaged, found.restriction) ]

\* ------------------------------------------------------------------------
\* Expressions of the scalar graph of a case
\* ------------------------------------------------------------------------

\* Largest number of vertices of the scalar graph of the expressions.
MaxSV == 3

\* An expression: the type of its root, for a terminal its name and the
\* type of the table mt_table_ranges and table_types give it ("None" when
\* it has no table), for a literal its value, for an operator its operands.
Node(op, name, ttype, operands) ==
    [ op |-> op, name |-> name, ttype |-> ttype, operands |-> operands ]

\* as_ufl(0.0)
z == Node("ScalarValue", "0.0", "None", << >>)

\* as_ufl(1.0)
one == Node("ScalarValue", "1.0", "None", << >>)

\* The modified terminals of a graph: the quadrature weight and a
\* coefficient, each without a table or with a table of one of two types.
sv_terminals ==
    { Node(c[1], c[2], tt, << >>) :
        c \in { << "QuadratureWeight", "weight" >>, << "Coefficient", "f" >> },
        tt \in {"None", "zeros", "piecewise"} }

is_terminal_node(v) == v.op \in {"QuadratureWeight", "Coefficient"}

\* Variant of replace_terminal that replaces nothing.
keep_terminal(v) == v

\* "Replace some scalar modified terminals before reconstructing
\* expressions": what V[i] is after the pass over the terminals.
replace_terminal(v) ==
    IF ~is_terminal_node(v) THEN v
    ELSE IF v.op = "QuadratureWeight" THEN one
    ELSE IF v.ttype = "zeros" THEN z
    ELSE v

\* Variant of propagate that reconstructs nothing.
propagate_nothing(SV, SV_deps, i) == SV

\* "Propagate expression changes using dependency list": the passes of
\* "for i in range(len(V))" from vertex i on.
RECURSIVE propagate(_, _, _)
propagate(SV, SV_deps, i) ==
    IF i > Len(SV) THEN SV
    ELSE propagate(
             IF SV_deps[i] # << >>
             THEN [ SV EXCEPT ![i].operands =
                                 [ k \in DOMAIN SV_deps[i] |-> SV[SV_deps[i][k]] ] ]
             ELSE SV,
             SV_deps, i + 1)

\* The terminals an expression is made of.
RECURSIVE terminals_of(_)
terminals_of(e) ==
    IF is_terminal_node(e) THEN {e}
    ELSE UNION { terminals_of(e.operands[k]) : k \in DOMAIN e.operands }

\* The graphs build_scalar_graph may give for expressions of n vertices:
\* every vertex is a terminal or an operator on vertices before it, no two
\* vertices are the same expression and no terminal has two tables.
RECURSIVE ScalarGraphs(_)
ScalarGraphs(n) ==
    IF n = 0 THEN { [ V |-> << >>, V_deps |-> << >> ] }
    ELSE UNION {
             { [ V |-> Append(g.V, t), V_deps |-> Append(g.V_deps, << >>) ] :
                 t \in sv_terminals }
             \cup
             { [ V |-> Append(g.V, Node("Operator", "None", "None",
                                       [ k \in DOMAIN d |-> g.V[d[k]] ])),
                 V_deps |-> Append(g.V_deps, d) ] :
                 d \in UNION { [ 1..l -> 1..(n - 1) ] : l \in 1..2 } } :
             g \in ScalarGraphs(n - 1) }

WellFormedGraph(g) ==
    /\ \A i, j \in DOMAIN g.V : g.V[i] = g.V[j] => i = j
    /\ \A i, j \in DOMAIN g.V :
          (is_terminal_node(g.V[i]) /\ is_terminal_node(g.V[j])
              /\ g.V[i].name = g.V[j].name) => i = j

\* The graphs with their targets: the scalar components of the expression,
\* one for an integrand, some vertices of the graph.
TargetedGraphs(n, max_targets) ==
    { [ V |-> g.V, V_deps |-> g.V_deps, V_targets |-> t ] :
        g \in { h \in ScalarGraphs(n) : WellFormedGraph(h) },
        t \in { u \in UNION { [ 1..l -> 1..n ] : l \in 1..max_targets } :
                  \A i, j \in DOMAIN u : u[i] = u[j] => i = j } }

\* ------------------------------------------------------------------------
\* build_uflacs_ir: state
\* ------------------------------------------------------------------------

VARIABLES
    integral_type,          \* argument integral_type
    entitytype,             \* argument entitytype
    tdim,                   \* cell.topological_dimension()
    parameters,             \* argument parameters
    tensor_rank,            \* len(tensor_shape)
    num_cases,              \* len(cases)
    num_expressions,        \* len(expressions) of every case
    integrands_keys,        \* integrands.keys() in the order the dict gives them
    all_num_points,         \* ir["all_num_points"] (0 for the None of an expression)
    pc,                     \* "cases", "terms", "done", "error", "deps", "deps_done", ...
    error,                  \* the failure that ended the build, or "none"
    case,                   \* number of the case last factorized (0: none yet)
    FV,                     \* factorized graph of the case
    FV_targets,
    FV_active,
    FV_piecewise,
    FV_varying,
    FV_terminal,            \* vertex -> class of mt.terminal of modified_terminals
    FV_expr,                \* vertex -> the expression FV[i], the key of pe2i
    modified_arguments,     \* modified argument -> its analysed form
    mt_unames,              \* vertex -> tr[0] of modified_terminal_table_ranges
    ma_unames,              \* modified argument -> tr[0] of modified_argument_table_ranges
    ma_dofrange,            \* modified argument -> tr[1:3] of the same
    ma_restriction,         \* modified argument -> modified_arguments[ma].restriction
    weights,                \* quadrature_rules[num_points][1]
    unique_tables,          \* the tables of the case, name -> table
    table_types,            \* the table types of the case, name -> type
    table_num_dofs,         \* name -> number of dofs
    argument_factorization, \* key (tuple of modified arguments) -> factor vertex
    terms_done,             \* monomials of the case already classified
    block_contributions,    \* blocks of the case kept in its varying IR
    pir_block_contributions,\* ir["piecewise_ir"]["block_contributions"]
    preintegrated_blocks,   \* ir["piecewise_ir"]["preintegrated_blocks"]
    premultiplied_blocks,   \* ir["piecewise_ir"]["premultiplied_blocks"]
    ir_unique_tables,       \* ir["unique_tables"]
    ir_unique_table_types,  \* ir["unique_table_types"]
    varying_irs,            \* ir["varying_irs"], one entry per finished case
    ptable,                 \* the table integrate_block returned
    V,                      \* the scalar graph of the expressions of the case
    V_deps,
    V_targets,
    initial_terminal_data,  \* vertex -> the modified terminal V[i] was
    expressions,            \* the rebuilt target expressions
    pe2i,                   \* piecewise expression -> index in pir_V
    piecewise_modified_argument_indices,
    pir_V,                  \* ir["piecewise_ir"]["V"]
    pir_V_active,           \* ir["piecewise_ir"]["V_active"]
    pir_V_table_data,       \* ir["piecewise_ir"]["V_table_data"]
    pir_modified_arguments, \* ir["piecewise_ir"]["modified_arguments"]
    expr,                   \* argument expr of analyse_modified_terminal
    mt,                     \* the ModifiedTerminal it returned (self of a comparison)
    mt_other,               \* argument other of __eq__ and __lt__
    result                  \* what a comparison returned

vars == << integral_type, entitytype, tdim, parameters, tensor_rank, num_cases,
           num_expressions, integrands_keys, all_num_points,
           V, V_deps, V_targets, initial_terminal_data, expressions,
           pe2i, piecewise_modified_argument_indices,
           pir_V, pir_V_active, pir_V_table_data, pir_modified_arguments,
           pc, error, case, FV, FV_targets, FV_active, FV_piecewise, FV_varying,
           FV_terminal, FV_expr, modified_arguments, mt_unames, ma_unames, ma_dofrange, ma_restriction,
           weights, unique_tables, table_types, table_num_dofs,
           argument_factorization, terms_done,
           block_contributions, pir_block_contributions,
           preintegrated_blocks, premultiplied_blocks,
           ir_unique_tables, ir_unique_table_types, varying_irs, ptable,
           expr, mt, mt_other, result >>

\* What the analysis and the comparisons of modified terminals work on.
mt_vars == << expr, mt, mt_other, result >>

inputs ==
    << integral_type, entitytype, tdim, parameters, tensor_rank, num_cases,
       num_expressions, integrands_keys, all_num_points >>

\* The scalar graph of the expressions of a case before the factorization.
rewrite_vars == << V, V_deps, V_targets, initial_terminal_data, expressions >>

\* "Shared piecewise expr_ir for all quadrature loops" and the "temporary
\* data structures to build shared piecewise data".
shared_vars ==
    << pe2i, piecewise_modified_argument_indices,
       pir_V, pir_V_active, pir_V_table_data, pir_modified_arguments >>

graph_vars == << FV, FV_targets, FV_active, FV_piecewise, FV_varying >>

\* What the collaborators hand over for a case and the loop over the
\* monomials only reads.
case_vars ==
    << FV_terminal, FV_expr, modified_arguments, mt_unames, ma_unames, ma_dofrange, ma_restriction,
       weights, table_num_dofs >>

cache_vars == << preintegrated_blocks, premultiplied_blocks >>

registry_vars == << ir_unique_tables, ir_unique_table_types >>

\* ------------------------------------------------------------------------
\* build_uflacs_ir: the decisions
\* ------------------------------------------------------------------------

\* Hard-wired in the function; the parameters are not consulted.
do_apply_preintegration == TRUE

expect_weight ==
    /\ integral_type \notin {"expression"} \cup point_integral_types
    /\ \/ entitytype = "cell"
       \/ (entitytype = "facet" /\ tdim > 1)
       \/ integral_type \in custom_integral_types

skip_preintegrated ==
    point_integral_types \cup custom_integral_types \cup {"interior_facet"}

skip_premultiplied ==
    point_integral_types \cup custom_integral_types \cup {"interior_facet"}

\* Variant of use_preintegrated without the test for quadrature tables.
preintegrated_with_quadrature(fip, rank, ttypes, itype) ==
    /\ fip
    /\ rank > 0
    /\ itype \notin skip_preintegrated

\* Variant of use_preintegrated that leaves rank 1 to the later branches.
preintegrated_rank_above_1(fip, rank, ttypes, itype) ==
    /\ fip
    /\ rank > 1
    /\ "quadrature" \notin Range(ttypes)
    /\ itype \notin skip_preintegrated

\* The condition of the branch block_mode = "preintegrated".
use_preintegrated(fip, rank, ttypes, itype) ==
    /\ fip
    /\ rank > 0
    /\ "quadrature" \notin Range(ttypes)
    /\ itype \notin skip_preintegrated

\* The condition of the branch block_mode = "premultiplied".
use_premultiplied(rank, ttypes, itype) ==
    /\ rank > 0
    /\ \A i \in DOMAIN ttypes : ttypes[i] \in piecewise_ttypes
    /\ itype \notin skip_premultiplied

\* Variant of use_partial without the test of the rank.
partial_any_rank(rank, ttypes) ==
    \E i \in DOMAIN ttypes : ttypes[i] \in piecewise_ttypes

\* Variant of use_partial with all() in the place of any().
partial_all_piecewise(rank, ttypes) ==
    /\ rank = 2
    /\ \A i \in DOMAIN ttypes : ttypes[i] \in piecewise_ttypes

\* The condition of the branch block_mode = "partial".
use_partial(rank, ttypes) ==
    /\ rank = 2
    /\ \E i \in DOMAIN ttypes : ttypes[i] \in piecewise_ttypes

\* Variant of select_block_mode whose last branch is taken for rank > 0
\* only, so that a rank-0 monomial is left without a mode.
select_without_fallback(fip, rank, ttypes, itype) ==
    IF ~do_apply_preintegration THEN "safe"
    ELSE IF use_preintegrated(fip, rank, ttypes, itype) THEN "preintegrated"
    ELSE IF use_premultiplied(rank, ttypes, itype) THEN "premultiplied"
    ELSE IF use_partial(rank, ttypes) THEN "partial"
    ELSE IF rank > 0 THEN "full"
    ELSE "None"

\* "Decide out how to handle code generation for this dofblock"
select_block_mode(fip, rank, ttypes, itype) ==
    IF ~do_apply_preintegration THEN "safe"
    ELSE IF use_preintegrated(fip, rank, ttypes, itype) THEN "preintegrated"
    ELSE IF use_premultiplied(rank, ttypes, itype) THEN "premultiplied"
    ELSE IF use_partial(rank, ttypes) THEN "partial"
    ELSE "full"

\* "Carry out decision": the failure of the branch taken, or "none".
carry_out_error(block_mode, fip, rank) ==
    IF block_mode = "preintegrated"
    THEN (IF fip THEN "none" ELSE "assert factor_is_piecewise")
    ELSE IF block_mode = "premultiplied"
    THEN (IF ~fip THEN "none" ELSE "assert not factor_is_piecewise")
    ELSE IF block_mode \in {"partial", "full", "safe"}
    THEN (IF block_mode = "partial" /\ rank # 2
          THEN "assert rank == 2" ELSE "none")
    ELSE "Invalid block_mode"

\* Variant of block_is_piecewise without "and not expect_weight".
piecewise_whatever_the_weight(block_mode, fip, ttypes, ew) ==
    IF block_mode = "preintegrated" THEN TRUE
    ELSE IF block_mode = "premultiplied" THEN FALSE
    ELSE /\ fip
         /\ \A i \in DOMAIN ttypes : ttypes[i] \in piecewise_ttypes

\* "Carry out decision": the value block_is_piecewise ends with.
block_is_piecewise(block_mode, fip, ttypes, ew) ==
    IF block_mode = "preintegrated" THEN TRUE
    ELSE IF block_mode = "premultiplied" THEN FALSE
    ELSE /\ fip /\ ~ew
         /\ \A i \in DOMAIN ttypes : ttypes[i] \in piecewise_ttypes

\* Variant of need_weights without "expect_weight and".
need_weights_unexpected(ew, contributions) ==
    \E n \in DOMAIN contributions :
        contributions[n].block_mode # "preintegrated"

\* "If there are any blocks other than preintegrated we need weights"
need_weights(ew, contributions) ==
    /\ ew
    /\ \E n \in DOMAIN contributions :
           contributions[n].block_mode # "preintegrated"


\* ------------------------------------------------------------------------
\* build_uflacs_ir: the tables and the terminals of a case
\* ------------------------------------------------------------------------

\* The None of a missing table range or of a block without a table of its own.
NoName == TableName("None", 0)

\* dict[k] = v
dict_set(d, k, v) ==
    [ x \in DOMAIN d \cup {k} |-> IF x = k THEN v ELSE d[x] ]

\* dict.update(e)
dict_update(d, e) ==
    [ x \in DOMAIN d \cup DOMAIN e |-> IF x \in DOMAIN e THEN e[x] ELSE d[x] ]

\* { name: d[name] for name in keep }
dict_restrict(d, keep) == [ x \in DOMAIN d \cap keep |-> d[x] ]

\* The expression FV[i], the key of pe2i: a terminal is known by its name,
\* an operator by the expressions of the vertices it depends on, in the
\* order of the graph.
RECURSIVE vertex_expr(_, _, _)
RECURSIVE operands_expr(_, _, _, _)
operands_expr(G, names, deps, j) ==
    IF j = 0 THEN << >>
    ELSE operands_expr(G, names, deps, j - 1)
             \o (IF j \in deps THEN vertex_expr(G, names, j) ELSE << >>)

vertex_expr(G, names, i) ==
    IF is_modified_terminal(G[i]) THEN << names[i] >>
    ELSE << "Operator" >> \o operands_expr(G, names, G[i].deps, i - 1)

\* table_data_t(name, begin, end, ttype, is_piecewise, is_uniform) without
\* the range of dofs.
table_data_t(name, ttype) ==
    [ name |-> name, ttype |-> ttype,
      is_piecewise |-> ttype \in piecewise_ttypes,
      is_uniform |-> ttype \in uniform_ttypes ]

\* The None that V_table_data holds for a vertex without a table.
NoTableData == table_data_t(NoName, "None")

\* The shared piecewise vertices: pe2i and the three lists of the
\* piecewise IR that grow with it.
PiecewiseVertices(indices, vertices, active, table_data) ==
    [ pe2i |-> indices, V |-> vertices, V_active |-> active,
      V_table_data |-> table_data ]

\* Variant of add_piecewise that appends the vertex whether pe2i knows it
\* or not.
add_piecewise_again(pv, v, td) ==
    PiecewiseVertices(dict_set(pv.pe2i, v, Len(pv.V) + 1), Append(pv.V, v),
                      Append(pv.V_active, 1), Append(pv.V_table_data, td))

\* "j = pe2i.get(v); if j is None: ..." for one piecewise vertex (the
\* source counts the positions from 0).
add_piecewise(pv, v, td) ==
    IF v \in DOMAIN pv.pe2i THEN pv
    ELSE PiecewiseVertices(
             dict_set(pv.pe2i, v, Cardinality(DOMAIN pv.pe2i) + 1),
             Append(pv.V, v), Append(pv.V_active, 1),
             Append(pv.V_table_data, td))

\* "Extend piecewise V with unique new FV_piecewise vertices", from the
\* i-th vertex on.
RECURSIVE extend_piecewise(_, _, _, _, _)
extend_piecewise(pv, exprs, piecewise, table_data, i) ==
    IF i > Len(exprs) THEN pv
    ELSE extend_piecewise(
             IF piecewise[i] = 1 THEN add_piecewise(pv, exprs[i], table_data[i])
             ELSE pv,
             exprs, piecewise, table_data, i + 1)

\* The shared modified arguments and their indices.
PiecewiseArgumentList(indices, arguments) ==
    [ indices |-> indices, modified_arguments |-> arguments ]

\* "Extend piecewise modified_arguments list with unique new items", from
\* the i-th modified argument on.
RECURSIVE extend_modified_arguments(_, _, _)
extend_modified_arguments(pa, mas, i) ==
    IF i > Len(mas) THEN pa
    ELSE extend_modified_arguments(
             IF mas[i] \in DOMAIN pa.indices THEN pa
             ELSE PiecewiseArgumentList(
                      dict_set(pa.indices, mas[i], Len(pa.modified_arguments) + 1),
                      Append(pa.modified_arguments, mas[i])),
             mas, i + 1)

\* Variant of factor_index that keeps the index of the degree.
factor_index_of_degree(factor_is_piecewise, indices, v, fi) == fi

\* "Store piecewise status for fi and translate index to piecewise scope
\* if relevant" (0 stands for the KeyError of pe2i[FV[fi]])
factor_index(factor_is_piecewise, indices, v, fi) ==
    IF factor_is_piecewise
    THEN (IF v \in DOMAIN indices THEN indices[v] ELSE 0)
    ELSE fi

\* Variant of ma_index that keeps the index of the degree.
ma_index_of_degree(is_piecewise, indices, argument, ma) == ma

\* "Translate indices to piecewise context if necessary" (0 stands for
\* the KeyError of the lookup)
ma_index(is_piecewise, indices, argument, ma) ==
    IF is_piecewise
    THEN (IF argument \in DOMAIN indices THEN indices[argument] ELSE 0)
    ELSE ma

\* equal_tables(tbl, table, epsilon) of tables with whole numbers as values:
\* two of them differ by more than epsilon = 1e-10 exactly when they differ.
equal_tables(tbl, table) == tbl = table

\* The classes of terminals that need_points looks for, and any other.
coordinate_classes == {"CellCoordinate", "FacetCoordinate"}

terminal_classes == coordinate_classes \cup {"Coefficient"}

\* The classes the terminals of a graph may have: the coordinates of a point
\* have no table and are not cell-wise constant.
TerminalClasses(G, classes) ==
    { c \in [ 1..Len(G) -> classes \cup {"None"} ] :
        \A i \in 1..Len(G) :
            IF is_modified_terminal(G[i])
            THEN /\ c[i] \in classes
                 /\ c[i] \in coordinate_classes =>
                        (G[i].ttype = "None" /\ ~G[i].cellwise)
            ELSE c[i] = "None" }

\* The table names the terminals of a graph may have: a name for every
\* terminal with a table, none for the others.
TerminalNames(G, names) ==
    { f \in [ 1..Len(G) -> names \cup {NoName} ] :
        \A i \in 1..Len(G) :
            (f[i] # NoName) <=> (is_modified_terminal(G[i]) /\ G[i].ttype # "None") }

\* The table names the modified arguments may have.
ArgumentNames(args, arg_names) ==
    { f \in [ args -> UNION Range(arg_names) ] :
        \A a \in args : f[a] \in arg_names[a] }

\* "Drop tables not referenced from modified terminals and tables of zeros
\* and ones"
unused_ttypes == {"zeros", "ones", "quadrature"}

\* The table names a block refers to.
block_table_names(blockdata) ==
    IF blockdata.block_mode \in {"preintegrated", "premultiplied"}
    THEN {blockdata.name}
    ELSE { blockdata.ma_data[i].name : i \in DOMAIN blockdata.ma_data }

\* "Figure out which table names are referenced in unstructured partition"
\* and "in blocks"
active_table_names(V_active, names, contributions, pir_contributions) ==
    { names[i] : i \in { j \in DOMAIN names :
                           V_active[j] = 1 /\ names[j] # NoName } }
        \cup UNION { block_table_names(contributions[n]) :
                       n \in DOMAIN contributions }
        \cup UNION { block_table_names(pir_contributions[n]) :
                       n \in DOMAIN pir_contributions }

\* Variant of keep_table_names that keeps the tables of every type.
keep_tables_of_any_type(active_names, types, tables) ==
    { name \in active_names : name \in DOMAIN tables }

\* "unique_tables = { name: unique_tables[name] for name in active_table_names
\* if unique_table_types[name] not in unused_ttypes and name in unique_tables }"
keep_table_names(active_names, types, tables) ==
    { name \in active_names :
        /\ types[name] \notin unused_ttypes
        /\ name \in DOMAIN tables }

\* Variant of record_table_types that records nothing.
record_no_table_types(registry, types) == registry

\* "Record all table types before dropping tables"
record_table_types(registry, types) == dict_update(registry, types)

\* Variant of table_mismatch that finds no table of the IR to differ.
table_mismatch_never(registry, kept) == FALSE

\* "for name, table in unique_tables.items(): tbl = ir["unique_tables"].get(name);
\* if tbl is not None and not equal_tables(tbl, table, epsilon)"
table_mismatch(registry, kept) ==
    \E name \in DOMAIN kept :
        /\ name \in DOMAIN registry
        /\ ~equal_tables(registry[name], kept[name])

\* Variant of new_table_name that counts from 1.
new_table_name_from_1(prefix, cache) ==
    TableName(prefix, Cardinality(DOMAIN cache) + 1)

\* Variant of new_table_name that gives every table the number 0.
new_table_name_0(prefix, cache) == TableName(prefix, 0)

\* "PI%d" % (len(cache),) and "PM%d" % (len(cache),)
new_table_name(prefix, cache) ==
    TableName(prefix, Cardinality(DOMAIN cache))

\* Variant of storage_key that carries the sides of the arguments.
storage_key_with_sides(dofblock, block_restrictions) ==
    << dofblock, block_restrictions >>

\* The key of "block_contributions[dofblock].append(blockdata)" and of
\* "ir["piecewise_ir"]["block_contributions"][dofblock].append(blockdata)"
storage_key(dofblock, block_restrictions) == dofblock

\* Variant of need_points that looks for either coordinate in any integral.
need_points_of_any_integral(itype, classes) ==
    classes \cap coordinate_classes # {}

\* "Figure out if we need to access CellCoordinate"
need_points(itype, classes) ==
    IF itype = "cell" THEN "CellCoordinate" \in classes
    ELSE IF itype \in facet_integral_types THEN "FacetCoordinate" \in classes
    ELSE FALSE

\* ------------------------------------------------------------------------
\* build_uflacs_ir: the steps
\* ------------------------------------------------------------------------

\* The graphs the builds are run on: a cell-wise constant terminal without a
\* table and a terminal with a table that varies over the points.
build_graphs ==
    { << Vertex({}, "None", TRUE), Vertex({}, "varying", FALSE) >> }

\* A single cell-wise constant terminal without a table.
sides_graphs == { << Vertex({}, "None", TRUE) >> }

\* The table types the arguments of the builds of several degrees have.
build_ttypes == {"piecewise", "quadrature"}

\* A table of one entity, one point and one dof.
unit_table == << << << 1 >> >> >>

\* What else the collaborators hand over in those builds: every modified
\* argument has a table of its own, of one value; no terminal is a
\* coordinate; no argument is restricted; the vertices and the modified
\* arguments are the same expressions in every degree; the integrand is a
\* coefficient without a table.
build_scope ==
    [ terminals    |-> {"Coefficient"},
      mt_names     |-> { TableName("FE", 0) },
      arg_names    |-> [ a \in modified_argument_indices |-> { TableName("FE", a) } ],
      extra_tables |-> { << >> },
      absent_ones  |-> { TRUE },
      tables       |-> { unit_table },
      weights      |-> { << 1 >> },
      sides        |-> { "None" },
      dofranges    |-> { << 0, 1 >> },
      vertex_exprs |-> { << "e1", "e2", "e3" >> },
      arguments    |-> { << "u1", "u2" >> },
      scalar_graphs |->
          { [ V |-> << Node("Coefficient", "f", "None", << >>) >>,
              V_deps |-> << << >> >>, V_targets |-> << 1 >> ] } ]

NoMarkers == << >>

NoExpression == << >>

NoResult == [ op |-> "none", value |-> "none" ]

\* No modified terminal is analysed or compared.
NoTerminal ==
    /\ expr = NoExpression
    /\ mt = NoDescriptor
    /\ mt_other = NoDescriptor
    /\ result = NoResult

\* No scalar graph has been built and the shared piecewise IR is empty.
NoGraph ==
    /\ V = << >>
    /\ V_deps = << >>
    /\ V_targets = << >>
    /\ initial_terminal_data = << >>
    /\ expressions = << >>
    /\ FV_expr = << >>
    /\ modified_arguments = << >>
    /\ pe2i = << >>
    /\ piecewise_modified_argument_indices = << >>
    /\ pir_V = << >>
    /\ pir_V_active = << >>
    /\ pir_V_table_data = << >>
    /\ pir_modified_arguments = << >>

\* No case has been begun: nothing is handed over, the IR is empty.
NoCase ==
    /\ NoGraph
    /\ FV_terminal = << >>
    /\ mt_unames = << >>
    /\ ma_unames = << >>
    /\ ma_dofrange = << >>
    /\ ma_restriction = << >>
    /\ weights = << >>
    /\ unique_tables = << >>
    /\ table_types = << >>
    /\ table_num_dofs = << >>
    /\ argument_factorization = << >>
    /\ terms_done = 0
    /\ block_contributions = << >>
    /\ pir_block_contributions = << >>
    /\ preintegrated_blocks = << >>
    /\ premultiplied_blocks = << >>
    /\ ir_unique_tables = << >>
    /\ ir_unique_table_types = << >>
    /\ varying_irs = << >>


\* Variant of sorted_keys that takes the keys as the dict gives them.
unsorted_keys(keys) == keys

\* all_num_points = sorted(integrands.keys())
sorted_keys(keys) == sorted(keys)

\* The numbers of points 1..n in ascending order.
first_points(maxCases) == { [ k \in 1..n |-> k ] : n \in 1..maxCases }

\* State before the first case: the IR holds no block and no table yet.
\* An expression has one case of some expressions and no number of points;
\* an integral has one case of one expression for every key of integrands.
InitBuildOf(itypes, tdims, enable, keys, maxExpressions) ==
    /\ integral_type \in itypes
    /\ entitytype \in entity_types
    /\ tdim \in tdims
    /\ parameters \in [ enable_preintegration : enable ]
    /\ tensor_rank \in 0..2
    /\ IF integral_type = "expression"
       THEN /\ integrands_keys = << 0 >>
            /\ all_num_points = << 0 >>
            /\ num_expressions \in 1..maxExpressions
       ELSE /\ integrands_keys \in keys
            /\ all_num_points = sorted_keys(integrands_keys)
            /\ num_expressions = 1
    /\ num_cases = Len(all_num_points)
    /\ pc = "cases"
    /\ error = "none"
    /\ case = 0
    /\ FV = << >>
    /\ FV_targets = {}
    /\ FV_active = NoMarkers
    /\ FV_piecewise = NoMarkers
    /\ FV_varying = NoMarkers
    /\ NoCase
    /\ ptable = NoTable
    /\ NoTerminal

\* The same of integrands whose keys are 1..n and of a single expression.
InitBuild(itypes, tdims, enable, maxCases) ==
    InitBuildOf(itypes, tdims, enable, first_points(maxCases), 1)

\* Variant of build_scalar_graph_error that takes any number of expressions.
build_scalar_graph_accepts(n) == "none"

\* build_scalar_graph: "assert len(expressions) == 1"
build_scalar_graph_error(n) ==
    IF n # 1
    THEN "FIXME: Multiple expressions in graph building needs more work from this point on."
    ELSE "none"

\* Lines 195-247 of one pass of "for num_points, expressions in cases":
\* build_scalar_graph gives the graph of the expressions, the terminals are
\* replaced, the changes propagated and the target expressions rebuilt;
\* build_scalar_graph refuses anything but one expression, the first time
\* and the second.
RebuildExpressions(scope) ==
    /\ pc = "cases"
    /\ case < num_cases
    /\ IF build_scalar_graph_error(num_expressions) # "none"
       THEN /\ pc' = "error"
            /\ error' = build_scalar_graph_error(num_expressions)
            /\ UNCHANGED rewrite_vars
       ELSE \E g \in scope.scalar_graphs :
            \E SV \in { propagate([ i \in DOMAIN g.V |-> replace_terminal(g.V[i]) ],
                                  g.V_deps, 1) } :
                /\ V' = SV
                /\ V_deps' = g.V_deps
                /\ V_targets' = g.V_targets
                /\ initial_terminal_data' =
                       [ i \in { j \in DOMAIN g.V : is_terminal_node(g.V[j]) } |->
                           g.V[i] ]
                /\ expressions' = [ k \in DOMAIN g.V_targets |-> SV[g.V_targets[k]] ]
                /\ IF build_scalar_graph_error(Len(g.V_targets)) # "none"
                   THEN /\ pc' = "error"
                        /\ error' = build_scalar_graph_error(Len(g.V_targets))
                   ELSE /\ pc' = "factorize"
                        /\ error' = error
    /\ UNCHANGED << inputs, shared_vars, mt_vars, case, graph_vars, case_vars,
                    unique_tables, table_types, argument_factorization,
                    terms_done, block_contributions, pir_block_contributions,
                    cache_vars, registry_vars, varying_irs, ptable >>

\* Lines 249-325 of one pass of "for num_points, expressions in cases": the
\* graph, the tables and the factorization of the case are the results of
\* the collaborators; the factors are the targets of the factorized graph;
\* the piecewise vertices and the modified arguments join the shared lists.
BeginCase(graphs, ttypes, maxTerms, scope) ==
    /\ pc = "factorize"
    /\ weights' \in scope.weights
    /\ \E G \in graphs :
       \E ks \in KeySets(tensor_rank, maxTerms) :
       \E af \in [ ks -> 1..Len(G) ] :
       \E un \in ArgumentNames(ArgumentsOf(ks), scope.arg_names) :
       \E tt \in [ Range(un) -> ttypes ] :
       \E classes \in TerminalClasses(G, scope.terminals) :
       \E tn \in TerminalNames(G, scope.mt_names) :
       \E extra \in scope.extra_tables :
       \E absent \in scope.absent_ones :
       \E ex \in scope.vertex_exprs :
       \E args \in scope.arguments :
       \E marks \in { analyse_dependencies(G, Range(af)) } :
          LET targets == Range(af)
              mt_names == Range(tn) \ {NoName}
              names   == Range(un) \cup mt_names \cup DOMAIN extra
              types   == [ n \in names |->
                             IF n \in Range(un) THEN tt[n]
                             ELSE IF n \in mt_names
                             THEN G[CHOOSE i \in 1..Len(G) : tn[i] = n].ttype
                             ELSE extra[n] ]
              present == { n \in names : ~(absent /\ types[n] = "ones") }
          IN  /\ \A i \in 1..Len(G) : tn[i] # NoName => types[tn[i]] = G[i].ttype
              /\ DOMAIN extra \cap (Range(un) \cup mt_names) = {}
              /\ FV' = G
              /\ FV_targets' = targets
              /\ FV_active' = marks.active
              /\ FV_piecewise' = marks.piecewise
              /\ FV_varying' = marks.varying
              /\ FV_terminal' = classes
              /\ mt_unames' = tn
              /\ ma_unames' = un
              /\ table_types' = types
              /\ unique_tables' \in [ present -> scope.tables ]
              /\ \A n \in present :
                    Len(unique_tables'[n][1]) \in {1, Len(weights')}
              /\ table_num_dofs' =
                     [ n \in names |->
                         IF n \in present THEN Len(unique_tables'[n][1][1]) ELSE 1 ]
              /\ argument_factorization' = af
              /\ ma_dofrange' \in [ ArgumentsOf(ks) -> scope.dofranges ]
              /\ ma_restriction' \in [ ArgumentsOf(ks) -> scope.sides ]
              /\ FV_expr' = [ i \in 1..Len(G) |-> vertex_expr(G, ex, i) ]
              /\ modified_arguments' =
                     [ a \in ArgumentsOf(ks) |->
                         [ terminal |-> args[a], restriction |-> ma_restriction'[a] ] ]
              /\ \E pv \in { extend_piecewise(
                                 PiecewiseVertices(pe2i, pir_V, pir_V_active,
                                                   pir_V_table_data),
                                 FV_expr', marks.piecewise,
                                 [ i \in 1..Len(G) |->
                                     IF tn[i] = NoName THEN NoTableData
                                     ELSE table_data_t(tn[i], types[tn[i]]) ],
                                 1) } :
                    /\ pe2i' = pv.pe2i
                    /\ pir_V' = pv.V
                    /\ pir_V_active' = pv.V_active
                    /\ pir_V_table_data' = pv.V_table_data
              /\ \E pa \in { extend_modified_arguments(
                                 PiecewiseArgumentList(
                                     piecewise_modified_argument_indices,
                                     pir_modified_arguments),
                                 modified_arguments', 1) } :
                    /\ piecewise_modified_argument_indices' = pa.indices
                    /\ pir_modified_arguments' = pa.modified_arguments
    /\ case' = case + 1
    /\ terms_done' = 0
    /\ block_contributions' = << >>
    /\ pc' = "terms"
    /\ UNCHANGED << inputs, rewrite_vars, mt_vars, error, pir_block_contributions, cache_vars,
                    registry_vars, varying_irs, ptable >>

\* One pass of "for ma_indices, fi in sorted(argument_factorization.items())".
ClassifyMonomial ==
    /\ pc = "terms"
    /\ terms_done < Cardinality(DOMAIN argument_factorization)
    /\ \E ma_indices \in { SortedKey(argument_factorization, terms_done + 1) } :
       \E unames \in { [ i \in DOMAIN ma_indices |-> ma_unames[ma_indices[i]] ] } :
       \E ttypes \in { [ i \in DOMAIN unames |-> table_types[unames[i]] ] } :
       \E factor_is_piecewise \in
              { FV_piecewise[argument_factorization[ma_indices]] = 1 } :
       \E block_mode \in
              { select_block_mode(factor_is_piecewise, Len(ma_indices), ttypes,
                                  integral_type) } :
       LET fi     == argument_factorization[ma_indices]
           rank   == Len(ma_indices)
           dofblock == [ i \in 1..rank |-> ma_dofrange[ma_indices[i]] ]
           block_restrictions ==
               [ i \in 1..rank |->
                   IF ttypes[i] \in uniform_ttypes THEN "None"
                   ELSE ma_restriction[ma_indices[i]] ]
           cache ==
               IF block_mode = "preintegrated" THEN preintegrated_blocks
               ELSE IF block_mode = "premultiplied" THEN premultiplied_blocks
               ELSE << >>
           hit == unames \in DOMAIN cache
           computed ==
               IF block_mode = "preintegrated" /\ ~hit
               THEN integrate_block(weights, unames, ttypes, unique_tables,
                                    table_num_dofs)
               ELSE IF block_mode = "premultiplied" /\ ~hit
               THEN multiply_block(1, unames, ttypes, unique_tables,
                                   table_num_dofs)
               ELSE [ error |-> "none", ptable |-> NoTable ]
           pname ==
               IF block_mode = "preintegrated"
               THEN (IF hit THEN cache[unames]
                     ELSE new_table_name("PI", cache))
               ELSE IF block_mode = "premultiplied"
               THEN (IF hit THEN cache[unames]
                     ELSE new_table_name("PM", cache))
               ELSE NoName
           index_of_factor ==
               factor_index(factor_is_piecewise, pe2i, FV_expr[fi], fi)
           index_of_argument ==
               [ i \in 1..rank |->
                   ma_index(ttypes[i] \in piecewise_ttypes,
                            piecewise_modified_argument_indices,
                            modified_arguments[ma_indices[i]], ma_indices[i]) ]
           failure ==
               IF "zeros" \in Range(ttypes) THEN "assert not zeros"
               ELSE IF index_of_factor = 0 THEN "KeyError"
               ELSE IF computed.error # "none" THEN computed.error
               ELSE IF block_mode \in {"partial", "full", "safe"}
                       /\ 0 \in Range(index_of_argument)
               THEN "KeyError"
               ELSE carry_out_error(block_mode, factor_is_piecewise, rank)
           piecewise_ma_index ==
               IF block_mode = "partial"
               THEN CHOOSE i \in 1..rank :
                        /\ ttypes[i] \in piecewise_ttypes
                        /\ \A j \in 1..(i-1) : ttypes[j] \notin piecewise_ttypes
               ELSE 0
           block_unames ==
               IF block_mode \in {"preintegrated", "premultiplied"}
               THEN << pname >>
               ELSE IF block_mode = "partial"
               THEN << unames[3 - piecewise_ma_index] >>
               ELSE unames
           ma_data ==
               IF block_mode \in {"preintegrated", "premultiplied"} THEN << >>
               ELSE [ i \in 1..rank |->
                        [ ma_index |-> index_of_argument[i],
                          name |-> unames[i],
                          is_piecewise |-> ttypes[i] \in piecewise_ttypes ] ]
           \* fi, factor_expr, ma_indices, arguments, argument_unames,
           \* dofblock and num_points are not entries of the block data: they
           \* keep the factor, the monomial, its arguments, its table names, the key of the list the block is appended to and the
           \* degree it belongs to.
           blockdata ==
               [ block_mode |-> block_mode,
                 ttypes |-> ttypes,
                 factor_is_piecewise |-> factor_is_piecewise,
                 factor_index |-> index_of_factor,
                 fi |-> fi,
                 factor_expr |-> FV_expr[fi],
                 arguments |->
                     [ i \in 1..rank |-> modified_arguments[ma_indices[i]] ],
                 unames |-> block_unames,
                 restrictions |-> block_restrictions,
                 name |-> pname,
                 ma_data |-> ma_data,
                 piecewise_ma_index |-> piecewise_ma_index,
                 ma_indices |-> ma_indices,
                 argument_unames |-> unames,
                 dofblock |-> storage_key(dofblock, block_restrictions),
                 num_points |-> case ]
       IN  IF failure # "none"
           THEN /\ pc' = "error"
                /\ error' = failure
                /\ UNCHANGED << terms_done, block_contributions,
                                pir_block_contributions, cache_vars,
                                unique_tables, table_types >>
           ELSE /\ pc' = pc
                /\ error' = error
                /\ terms_done' = terms_done + 1
                /\ preintegrated_blocks' =
                       IF block_mode = "preintegrated" /\ ~hit
                       THEN dict_set(preintegrated_blocks, unames, pname)
                       ELSE preintegrated_blocks
                /\ premultiplied_blocks' =
                       IF block_mode = "premultiplied" /\ ~hit
                       THEN dict_set(premultiplied_blocks, unames, pname)
                       ELSE premultiplied_blocks
                /\ unique_tables' =
                       IF pname # NoName /\ ~hit
                       THEN dict_set(unique_tables, pname, computed.ptable)
                       ELSE unique_tables
                /\ table_types' =
                       IF pname # NoName /\ ~hit
                       THEN dict_set(table_types, pname, block_mode)
                       ELSE table_types
                /\ IF block_is_piecewise(block_mode, factor_is_piecewise,
                                         ttypes, expect_weight)
                   THEN /\ pir_block_contributions' =
                               Append(pir_block_contributions, blockdata)
                        /\ UNCHANGED block_contributions
                   ELSE /\ block_contributions' =
                               Append(block_contributions, blockdata)
                        /\ UNCHANGED pir_block_contributions
    /\ UNCHANGED << inputs, rewrite_vars, shared_vars, mt_vars, case, graph_vars, case_vars,
                    argument_factorization, registry_vars, varying_irs, ptable >>

\* Lines 501-630 of one pass of the loop over the cases: the tables that are
\* not used are dropped, the others join the tables of the IR unless one of
\* them is there already with other values; the flags of the case are set
\* and its IR is stored.
FinishCase ==
    /\ pc = "terms"
    /\ terms_done = Cardinality(DOMAIN argument_factorization)
    /\ \E types \in { record_table_types(ir_unique_table_types, table_types) } :
       \E active \in
              { active_table_names(FV_active, mt_unames, block_contributions,
                                   pir_block_contributions) } :
       \E kept \in
              { IF active \subseteq DOMAIN types
                THEN dict_restrict(unique_tables,
                                   keep_table_names(active, types, unique_tables))
                ELSE unique_tables } :
       LET mismatch == table_mismatch(ir_unique_tables, kept)
           active_classes ==
               { FV_terminal[i] :
                   i \in { j \in modified_terminal_indices(FV) : FV_active[j] = 1 } }
       IN  /\ ir_unique_table_types' = types
           /\ unique_tables' = kept
           /\ IF ~(active \subseteq DOMAIN types)
              THEN /\ pc' = "error"
                   /\ error' = "KeyError"
                   /\ UNCHANGED << ir_unique_tables, varying_irs >>
              ELSE IF mismatch
              THEN /\ pc' = "error"
                   /\ error' = "Table values mismatch with same name."
                   /\ UNCHANGED << ir_unique_tables, varying_irs >>
              ELSE /\ pc' = "cases"
                   /\ error' = error
                   /\ ir_unique_tables' = dict_update(ir_unique_tables, kept)
                   /\ varying_irs' =
                          Append(varying_irs,
                                 [ num_points |-> all_num_points[case],
                                   block_contributions |-> block_contributions,
                                   need_points |->
                                       need_points(integral_type, active_classes),
                                   need_weights |->
                                       need_weights(expect_weight,
                                                    block_contributions) ])
    /\ UNCHANGED << inputs, rewrite_vars, shared_vars, mt_vars, case, graph_vars, case_vars, table_types,
                    argument_factorization, terms_done, block_contributions,
                    pir_block_contributions, cache_vars, ptable >>

\* "return ir"
Return ==
    /\ pc = "cases"
    /\ case = num_cases
    /\ pc' = "done"
    /\ UNCHANGED << inputs, rewrite_vars, shared_vars, mt_vars, error, case, graph_vars, case_vars, unique_tables,
                    table_types, argument_factorization, terms_done,
                    block_contributions, pir_block_contributions, cache_vars,
                    registry_vars, varying_irs, ptable >>

\* Builds of up to MaxCases degrees, each with any number of monomials, with
\* the default parameters.
Init == InitBuild(integral_types, {1, 2}, {TRUE}, MaxCases)

Next ==
    \/ RebuildExpressions(build_scope)
    \/ BeginCase(build_graphs, build_ttypes, Cardinality(Keys(1)), build_scope)
    \/ ClassifyMonomial
    \/ FinishCase
    \/ Return

Spec == Init /\ [][Next]_vars

\* Builds of one degree and one monomial, over every table type.
InitMonomial == InitBuild(integral_types, cell_dimensions, BOOLEAN, 1)

NextMonomial ==
    \/ RebuildExpressions(build_scope)
    \/ BeginCase(build_graphs, argument_ttypes, 1, build_scope)
    \/ ClassifyMonomial
    \/ FinishCase
    \/ Return

SpecMonomial == InitMonomial /\ [][NextMonomial]_vars

\* ------------------------------------------------------------------------
\* Builds whose terminals are replaced
\* ------------------------------------------------------------------------

\* The integrand is any expression of up to MaxSV vertices.
rewrite_scope ==
    [ build_scope EXCEPT
        !.scalar_graphs = UNION { TargetedGraphs(n, 1) : n \in 1..MaxSV } ]

\* Builds of functionals over cells of one degree.
InitRewrite ==
    /\ InitBuild({"cell"}, {2}, {TRUE}, 1)
    /\ tensor_rank = 0
    /\ entitytype = "cell"

NextRewrite ==
    \/ RebuildExpressions(rewrite_scope)
    \/ BeginCase(sides_graphs, {"piecewise"}, 1, build_scope)
    \/ ClassifyMonomial
    \/ FinishCase
    \/ Return

SpecRewrite == InitRewrite /\ [][NextRewrite]_vars

\* ------------------------------------------------------------------------
\* Builds of several expressions
\* ------------------------------------------------------------------------

\* Largest number of expressions handed over in expression mode, and of
\* scalar components of one of them.
MaxExpressions == 2

\* An integrand is a scalar; an expression has up to MaxExpressions scalar
\* components, the targets of its graph.
expressions_scope ==
    [ build_scope EXCEPT
        !.scalar_graphs =
            IF integral_type = "expression"
            THEN UNION { TargetedGraphs(n, MaxExpressions) : n \in 1..2 }
            ELSE build_scope.scalar_graphs ]

\* Builds of functionals: integrals over cells of up to MaxCases degrees,
\* and up to MaxExpressions expressions.
InitExpressions ==
    /\ InitBuildOf({"cell", "expression"}, {2}, {TRUE}, first_points(MaxCases),
                   MaxExpressions)
    /\ tensor_rank = 0
    /\ entitytype = "cell"

NextExpressions ==
    \/ RebuildExpressions(expressions_scope)
    \/ BeginCase(sides_graphs, {"piecewise"}, 1, build_scope)
    \/ ClassifyMonomial
    \/ FinishCase
    \/ Return

SpecExpressions == InitExpressions /\ [][NextExpressions]_vars

\* ------------------------------------------------------------------------
\* Builds whose degrees share piecewise vertices and modified arguments
\* ------------------------------------------------------------------------

\* A terminal with a table that is constant over the points and a terminal
\* that varies over them, or a cell-wise constant terminal without a table
\* and one with a table, or those two and an operator on them.
shared_graphs ==
    { << Vertex({}, "piecewise", TRUE), Vertex({}, "varying", FALSE) >>,
      << Vertex({}, "None", TRUE), Vertex({}, "piecewise", TRUE) >>,
      << Vertex({}, "None", TRUE), Vertex({}, "piecewise", TRUE),
         Vertex({1, 2}, "None", FALSE) >> }

\* The terminals of a degree are two of three expressions, in one order or
\* the other, and its modified argument is one of two.
shared_scope ==
    [ build_scope EXCEPT
        !.vertex_exprs = { << "e1", "e2", "e3" >>, << "e2", "e1", "e3" >>,
                           << "e2", "e3", "e1" >> },
        !.arguments = { << "u1", "u2" >>, << "u2", "u1" >> } ]

\* Builds of linear forms over cells or vertices of up to MaxCases degrees.
InitShared ==
    /\ InitBuild({"cell", "vertex"}, {2}, {TRUE}, MaxCases)
    /\ tensor_rank = 1
    /\ entitytype = (IF integral_type = "cell" THEN "cell" ELSE "vertex")

NextShared ==
    \/ RebuildExpressions(shared_scope)
    \/ BeginCase(shared_graphs, {"piecewise", "varying"}, 1, shared_scope)
    \/ ClassifyMonomial
    \/ FinishCase
    \/ Return

SpecShared == InitShared /\ [][NextShared]_vars

\* ------------------------------------------------------------------------
\* Builds whose terminals are coordinates
\* ------------------------------------------------------------------------

\* Two terminals without a table that are not cell-wise constant, and an
\* operator applied to the first: a factor makes itself and what it is
\* computed from active.
points_graphs ==
    { << Vertex({}, "None", FALSE), Vertex({}, "None", FALSE),
         Vertex({1}, "None", FALSE) >> }

points_scope == [ build_scope EXCEPT !.terminals = terminal_classes ]

\* Builds of functionals over cells of up to MaxCases degrees.
InitPoints ==
    /\ InitBuild(integral_types, {2}, {TRUE}, MaxCases)
    /\ tensor_rank = 0
    /\ entitytype = "cell"

NextPoints ==
    \/ RebuildExpressions(points_scope)
    \/ BeginCase(points_graphs, {"piecewise"}, 1, points_scope)
    \/ ClassifyMonomial
    \/ FinishCase
    \/ Return

SpecPoints == InitPoints /\ [][NextPoints]_vars

\* ------------------------------------------------------------------------
\* Builds whose tables are pruned
\* ------------------------------------------------------------------------

\* A cell-wise constant terminal with a table, of constant values or of
\* zeros, and a terminal without a table that varies over the points.
tables_graphs ==
    { << Vertex({}, t, TRUE), Vertex({}, "None", FALSE) >> :
        t \in {"piecewise", "zeros"} }

\* The tables no terminal and no argument of the case has.
tables_extra ==
    { << >>,
      [ n \in { TableName("FE", 1) } |-> "piecewise" ],
      [ n \in { TableName("FE", 3) } |-> "zeros" ],
      [ n \in { TableName("FE", 1), TableName("FE", 3) } |->
          IF n = TableName("FE", 1) THEN "piecewise" ELSE "zeros" ] }

\* The argument has one of two tables, a table of ones is there, and there
\* may be tables that nothing refers to.
tables_scope ==
    [ build_scope EXCEPT
        !.arg_names = [ a \in modified_argument_indices |->
                          { TableName("FE", 1), TableName("FE", 2) } ],
        !.extra_tables = tables_extra,
        !.absent_ones = { FALSE } ]

\* Builds of linear forms over cells or vertices of up to MaxCases degrees.
InitTables ==
    /\ InitBuild({"cell", "vertex"}, {2}, {TRUE}, MaxCases)
    /\ tensor_rank = 1
    /\ entitytype = (IF integral_type = "cell" THEN "cell" ELSE "vertex")

NextTables ==
    \/ RebuildExpressions(tables_scope)
    \/ BeginCase(tables_graphs, {"piecewise", "ones"}, 1, tables_scope)
    \/ ClassifyMonomial
    \/ FinishCase
    \/ Return

SpecTables == InitTables /\ [][NextTables]_vars

\* ------------------------------------------------------------------------
\* Builds whose monomials share tables
\* ------------------------------------------------------------------------

\* Every modified argument has one of two tables.
cache_scope ==
    [ build_scope EXCEPT
        !.arg_names = [ a \in modified_argument_indices |->
                          { TableName("FE", 1), TableName("FE", 2) } ] ]

\* Builds of linear and bilinear forms over cells of up to MaxCases degrees,
\* the tables of the arguments being constant over the points.
InitCache ==
    /\ InitBuild({"cell"}, {2}, {TRUE}, MaxCases)
    /\ tensor_rank \in {1, 2}
    /\ entitytype = "cell"

NextCache ==
    \/ RebuildExpressions(cache_scope)
    \/ BeginCase(build_graphs, {"piecewise"}, Cardinality(Keys(1)), cache_scope)
    \/ ClassifyMonomial
    \/ FinishCase
    \/ Return

SpecCache == InitCache /\ [][NextCache]_vars

\* ------------------------------------------------------------------------
\* Builds whose integrands come in any order
\* ------------------------------------------------------------------------

\* The orders in which a dict can give up to maxCases of the numbers of
\* points 1..maxCases.
key_orders(maxCases) ==
    { k \in UNION { [ 1..n -> 1..maxCases ] : n \in 1..maxCases } :
        \A i, j \in DOMAIN k : i # j => k[i] # k[j] }

\* Builds of linear and bilinear forms over cells of up to MaxCases degrees,
\* the tables of the arguments being constant over the points.
InitOrder ==
    /\ InitBuildOf({"cell"}, {2}, {TRUE}, key_orders(MaxCases), 1)
    /\ tensor_rank \in {1, 2}
    /\ entitytype = "cell"

NextOrder ==
    \/ RebuildExpressions(cache_scope)
    \/ BeginCase(build_graphs, {"piecewise"}, Cardinality(Keys(1)), cache_scope)
    \/ ClassifyMonomial
    \/ FinishCase
    \/ Return

SpecOrder == InitOrder /\ [][NextOrder]_vars

\* ------------------------------------------------------------------------
\* Builds whose degrees have rules of their own
\* ------------------------------------------------------------------------

\* A table of one entity, two points and one dof.
two_point_table == << << << 1 >>, << 3 >> >> >>

\* Another table of one entity, one point and one dof.
other_unit_table == << << << 3 >> >> >>

\* The rule of a degree has one point or two, the weights adding up to the
\* same, and a table has one of two values or a value for each of two
\* points.
quadrature_scope ==
    [ build_scope EXCEPT
        !.weights = { << 2 >>, << 1, 1 >> },
        !.tables = { unit_table, other_unit_table, two_point_table } ]

\* Builds of linear forms over cells of up to MaxCases degrees.
InitQuadrature ==
    /\ InitBuild({"cell"}, {2}, {TRUE}, MaxCases)
    /\ tensor_rank = 1
    /\ entitytype = "cell"

NextQuadrature ==
    \/ RebuildExpressions(quadrature_scope)
    \/ BeginCase(build_graphs, {"varying"}, 1, quadrature_scope)
    \/ ClassifyMonomial
    \/ FinishCase
    \/ Return

SpecQuadrature == InitQuadrature /\ [][NextQuadrature]_vars

\* ------------------------------------------------------------------------
\* Builds whose arguments are restricted
\* ------------------------------------------------------------------------

\* Every modified argument is restricted to one side of the facet and has
\* one of two dof ranges.
sides_scope ==
    [ build_scope EXCEPT
        !.sides = { "+", "-" },
        !.dofranges = { << 0, 1 >>, << 1, 2 >> } ]

\* Builds of linear forms of one degree over interior facets and over cells.
InitSides ==
    /\ InitBuild({"interior_facet", "cell"}, {2}, {TRUE}, 1)
    /\ tensor_rank = 1
    /\ entitytype = (IF integral_type = "cell" THEN "cell" ELSE "facet")

NextSides ==
    \/ RebuildExpressions(sides_scope)
    \/ BeginCase(sides_graphs, {"piecewise", "uniform"}, Cardinality(Keys(1)),
                 sides_scope)
    \/ ClassifyMonomial
    \/ FinishCase
    \/ Return

SpecSides == InitSides /\ [][NextSides]_vars

\* ------------------------------------------------------------------------
\* integrate_block on its own
\* ------------------------------------------------------------------------

\* A table of the given shape whose values tell the entities, the points and
\* the dofs apart.
shaped_table(num_entities, num_points, num_dofs, first) ==
    [ e \in 1..num_entities |->
        [ q \in 1..num_points |->
            [ d \in 1..num_dofs |-> first + 4 * (e - 1) + 2 * (q - 1) + (d - 1) ] ] ]

\* The tables a name may have for a rule of the given number of points: one
\* entity or two, one point or as many as the rule, one dof or two.
shaped_tables(num_points) ==
    { shaped_table(ne, nq, nd, first) :
        ne \in {1, 2}, nq \in {1, num_points}, nd \in {1, 2}, first \in {1, 2} }

\* The tuples of table names integrate_block is called with.
integrate_unames ==
    { << >>,
      << TableName("FE", 1) >>,
      << TableName("FE", 1), TableName("FE", 1) >>,
      << TableName("FE", 1), TableName("FE", 2) >> }

\* The weights of the rules, in whole numbers.
integrate_weights == { << 2 >>, << 1, 3 >> }

\* A call of integrate_block: ma_unames is the tuple unames; a name has a
\* table, or none and the type "ones" or, against the assertion, another.
InitIntegrate ==
    /\ integral_type = "cell"
    /\ entitytype = "cell"
    /\ tdim = 1
    /\ parameters = [ enable_preintegration |-> TRUE ]
    /\ ma_unames \in integrate_unames
    /\ tensor_rank = Len(ma_unames)
    /\ num_cases = 1
    /\ num_expressions = 1
    /\ integrands_keys = << 1 >>
    /\ all_num_points = << 1 >>
    /\ pc = "integrate"
    /\ error = "none"
    /\ case = 1
    /\ FV = << >>
    /\ FV_targets = {}
    /\ FV_active = NoMarkers
    /\ FV_piecewise = NoMarkers
    /\ FV_varying = NoMarkers
    /\ NoGraph
    /\ FV_terminal = << >>
    /\ mt_unames = << >>
    /\ ma_dofrange = << >>
    /\ ma_restriction = << >>
    /\ weights \in integrate_weights
    /\ \E present \in SUBSET Range(ma_unames) :
          /\ unique_tables \in [ present -> shaped_tables(Len(weights)) ]
          /\ table_types \in [ Range(ma_unames) -> {"ones", "varying"} ]
          /\ \A n \in present : table_types[n] = "varying"
          /\ table_num_dofs \in [ Range(ma_unames) -> {1, 2} ]
          /\ \A n \in present :
                table_num_dofs[n] = Len(unique_tables[n][1][1])
    /\ argument_factorization = << >>
    /\ terms_done = 0
    /\ block_contributions = << >>
    /\ pir_block_contributions = << >>
    /\ preintegrated_blocks = << >>
    /\ premultiplied_blocks = << >>
    /\ ir_unique_tables = << >>
    /\ ir_unique_table_types = << >>
    /\ varying_irs = << >>
    /\ ptable = NoTable
    /\ NoTerminal

\* ptable = integrate_block(weights, unames, ttypes, unique_tables,
\* table_num_dofs)
IntegrateBlock ==
    /\ pc = "integrate"
    /\ \E integrated \in
           { integrate_block(weights, ma_unames,
                             [ i \in DOMAIN ma_unames |-> table_types[ma_unames[i]] ],
                             unique_tables, table_num_dofs) } :
          /\ ptable' = integrated.ptable
          /\ error' = integrated.error
          /\ pc' = IF integrated.error = "none" THEN "integrated" ELSE "error"
    /\ UNCHANGED << inputs, rewrite_vars, shared_vars, mt_vars, case, graph_vars, case_vars, unique_tables,
                    table_types, argument_factorization, terms_done,
                    block_contributions, pir_block_contributions, cache_vars,
                    registry_vars, varying_irs >>

NextIntegrate == IntegrateBlock

SpecIntegrate == InitIntegrate /\ [][NextIntegrate]_vars

\* ------------------------------------------------------------------------
\* analyse_modified_terminal on its own
\* ------------------------------------------------------------------------

\* No build is under way.
NoBuild ==
    /\ integral_type = "cell"
    /\ entitytype = "cell"
    /\ tdim = 1
    /\ parameters = [ enable_preintegration |-> TRUE ]
    /\ tensor_rank = 0
    /\ num_cases = 1
    /\ num_expressions = 1
    /\ integrands_keys = << 1 >>
    /\ all_num_points = << 1 >>
    /\ error = "none"
    /\ case = 0
    /\ FV = << >>
    /\ FV_targets = {}
    /\ FV_active = NoMarkers
    /\ FV_piecewise = NoMarkers
    /\ FV_varying = NoMarkers
    /\ NoCase
    /\ ptable = NoTable

\* A call of analyse_modified_terminal with an expression of at most
\* MaxDepth modifiers.
InitTerminal ==
    /\ NoBuild
    /\ pc = "analyse"
    /\ expr \in Expressions(MaxDepth)
    /\ mt = NoDescriptor
    /\ mt_other = NoDescriptor
    /\ result = NoResult

\* mt = analyse_modified_terminal(expr)
AnalyseModifiedTerminal ==
    /\ pc = "analyse"
    /\ \E analysed \in { analyse_modified_terminal(expr) } :
          /\ mt' = analysed.mt
          /\ error' = analysed.error
          /\ pc' = IF analysed.error = "none" THEN "analysed" ELSE "error"
    /\ UNCHANGED << inputs, rewrite_vars, shared_vars, case, graph_vars, case_vars, unique_tables,
                    table_types, argument_factorization, terms_done,
                    block_contributions, pir_block_contributions, cache_vars,
                    registry_vars, varying_irs, ptable, expr, mt_other, result >>

NextTerminal == AnalyseModifiedTerminal

SpecTerminal == InitTerminal /\ [][NextTerminal]_vars

\* ------------------------------------------------------------------------
\* Comparisons of modified terminals
\* ------------------------------------------------------------------------

\* Largest number of modifiers around a terminal that is compared.
CompareDepth == 2

\* The descriptors analyse_modified_terminal returns for the expressions of
\* at most the given number of modifiers.
Descriptors(depth) ==
    { a.mt : a \in { x \in { analyse_modified_terminal(e) :
                                e \in Expressions(depth) } :
                       x.error = "none" } }

\* Two descriptors are at hand.
InitCompare ==
    /\ NoBuild
    /\ pc = "compare"
    /\ \E ds \in { Descriptors(CompareDepth) } :
          /\ mt \in ds
          /\ mt_other \in ds
    /\ expr = mt.expr
    /\ result = NoResult

\* What a comparison leaves alone.
compare_unchanged ==
    << inputs, rewrite_vars, shared_vars, error, case, graph_vars, case_vars, unique_tables,
       table_types, argument_factorization, terms_done,
       block_contributions, pir_block_contributions, cache_vars,
       registry_vars, varying_irs, ptable, expr, mt, mt_other >>

\* mt == mt_other
Eq ==
    /\ pc = "compare"
    /\ result' = [ op |-> "eq", value |-> mt_eq(mt, mt_other) ]
    /\ pc' = "compared"
    /\ UNCHANGED compare_unchanged

\* hash(mt) == hash(mt_other)
Hash ==
    /\ pc = "compare"
    /\ \E h \in mt_hash(mt, mt_other) :
          result' = [ op |-> "hash", value |-> h ]
    /\ pc' = "compared"
    /\ UNCHANGED compare_unchanged

\* mt < mt_other
Lt ==
    /\ pc = "compare"
    /\ \E l \in mt_lt(mt, mt_other) :
          result' = [ op |-> "lt", value |-> l ]
    /\ pc' = "compared"
    /\ UNCHANGED compare_unchanged

NextCompare == Eq \/ Hash \/ Lt

SpecCompare == InitCompare /\ [][NextCompare]_vars

\* ------------------------------------------------------------------------
\* Derivatives of one terminal in several orders
\* ------------------------------------------------------------------------

\* Largest number of gradients around a terminal.
MaxDerivatives == 2

\* The gradients of a kind, in number k, innermost the reference value
\* that local gradients are taken of.
gradients(kind, k) ==
    [ i \in 1..k |-> Modifier(kind, << >>, TRUE, "None") ]
        \o (IF kind = "ReferenceGrad"
            THEN << Modifier("ReferenceValue", << >>, TRUE, "None") >>
            ELSE << >>)

\* The expressions Indexed(Grad(...Grad(t)), ix) of a scalar or a vector
\* terminal with at most n gradients of one kind.
DerivativeExpressions(n) ==
    { [ modifiers |-> << Modifier("Indexed", ix, TRUE, "None") >>
                          \o gradients(kind, k),
        terminal |-> t ] :
        ix \in UNION { [ 1..l -> index_values ] : l \in 0..(n + 1) },
        k \in 0..n, kind \in {"Grad", "ReferenceGrad"},
        t \in { u \in terminals : u.name \in {"f", "v"} } }

\* Two descriptors of such expressions are at hand.
InitDerivatives ==
    /\ NoBuild
    /\ pc = "compare"
    /\ \E ds \in { { a.mt : a \in { x \in { analyse_modified_terminal(e) :
                                   e \in DerivativeExpressions(MaxDerivatives) } :
                                 x.error = "none" } } } :
          /\ mt \in ds
          /\ mt_other \in ds
    /\ expr = mt.expr
    /\ result = NoResult

SpecDerivatives == InitDerivatives /\ [][NextCompare]_vars

\* ------------------------------------------------------------------------
\* analyse_dependencies on its own
\* ------------------------------------------------------------------------

InitDeps ==
    /\ integral_type = "cell"
    /\ entitytype = "cell"
    /\ tdim = 1
    /\ parameters = [ enable_preintegration |-> TRUE ]
    /\ tensor_rank = 0
    /\ num_cases = 1
    /\ num_expressions = 1
    /\ integrands_keys = << 1 >>
    /\ all_num_points = << 1 >>
    /\ pc = "deps"
    /\ error = "none"
    /\ case = 0
    /\ \E n \in 1..MaxV :
          /\ FV \in GraphsOfSize(n)
          /\ FV_targets \in (SUBSET (1..n)) \ {{}}
    /\ FV_active = NoMarkers
    /\ FV_piecewise = NoMarkers
    /\ FV_varying = NoMarkers
    /\ NoCase
    /\ ptable = NoTable
    /\ NoTerminal

AnalyseDependencies ==
    /\ pc = "deps"
    /\ LET marks == analyse_dependencies(FV, FV_targets)
       IN  /\ FV_active' = marks.active
           /\ FV_piecewise' = marks.piecewise
           /\ FV_varying' = marks.varying
    /\ pc' = "deps_done"
    /\ UNCHANGED << inputs, rewrite_vars, shared_vars, mt_vars, error, case, FV, FV_targets, case_vars,
                    unique_tables, table_types,
                    argument_factorization, terms_done, block_contributions,
                    pir_block_contributions, cache_vars, registry_vars,
                    varying_irs, ptable >>

NextDeps == AnalyseDependencies

SpecDeps == InitDeps /\ [][NextDeps]_vars

\* ------------------------------------------------------------------------
\* Properties
\* ------------------------------------------------------------------------

SeqSet(s) == { s[i] : i \in DOMAIN s }

block_modes == {"preintegrated", "premultiplied", "partial", "full", "safe"}

PiecewiseBlocks == SeqSet(pir_block_contributions)

VaryingBlocks ==
    SeqSet(block_contributions)
        \cup UNION { SeqSet(varying_irs[c].block_contributions) :
                     c \in DOMAIN varying_irs }

Blocks == PiecewiseBlocks \cup VaryingBlocks

RankOf(b) == Len(b.ttypes)

PiecewiseArguments(b) ==
    { i \in DOMAIN b.ttypes : b.ttypes[i] \in piecewise_ttypes }

SkippedIntegral ==
    integral_type \in point_integral_types \cup custom_integral_types
                          \cup {"interior_facet"}

\* C1: every monomial of rank 0, 1 or 2 gets one of the five block modes,
\* whatever its argument table types, its factor and the integral type, and
\* the dispatch never reaches the "Invalid block_mode" error.
C1_ModeExhaustive ==
    /\ error # "Invalid block_mode"
    /\ \A b \in Blocks : b.block_mode \in block_modes
    /\ pc = "done" => Blocks # {}

C1_Witness ==
    /\ pc = "done"
    /\ \E b \in Blocks : RankOf(b) = 0 /\ b.block_mode = "full"

\* C2: with preintegration enabled, a monomial is preintegrated if and only
\* if its factor is piecewise, its rank is above 0, no argument table is of
\* type quadrature and the integral is no point, custom or interior facet
\* integral.
C2_PreintegratedIff ==
    parameters.enable_preintegration =>
        \A b \in Blocks :
            (b.block_mode = "preintegrated")
                <=> /\ b.factor_is_piecewise
                    /\ RankOf(b) > 0
                    /\ \A i \in DOMAIN b.ttypes : b.ttypes[i] # "quadrature"
                    /\ ~SkippedIntegral

C2_Witness ==
    /\ parameters.enable_preintegration
    /\ \E b \in Blocks :
          /\ b.block_mode = "preintegrated"
          /\ RankOf(b) = 2
          /\ b.ttypes[1] = "varying"

\* C3: a premultiplied monomial has rank above 0, only piecewise argument
\* tables and a factor that is not piecewise, so the assertion of the
\* premultiplied branch never fails.
C3_Premultiplied ==
    /\ error # "assert not factor_is_piecewise"
    /\ \A b \in Blocks :
          b.block_mode = "premultiplied" =>
              /\ RankOf(b) > 0
              /\ PiecewiseArguments(b) = DOMAIN b.ttypes
              /\ ~b.factor_is_piecewise

C3_Witness ==
    \E b \in Blocks : b.block_mode = "premultiplied" /\ RankOf(b) = 2

\* C4 as claimed: a partial monomial has rank 2 and exactly one of its two
\* argument tables is piecewise, for every integral type.
C4_Original ==
    \A b \in Blocks :
        b.block_mode = "partial" =>
            /\ RankOf(b) = 2
            /\ Cardinality(PiecewiseArguments(b)) = 1

\* C4 as amended: a partial monomial has rank 2 (the assertion of the
\* partial branch never fails) and at least one of its two argument tables
\* is piecewise; exactly one is, unless the integral is a point, custom or
\* interior facet integral, where both may be.
C4_Partial ==
    /\ error # "assert rank == 2"
    /\ \A b \in Blocks :
          b.block_mode = "partial" =>
              /\ RankOf(b) = 2
              /\ Cardinality(PiecewiseArguments(b)) >= 1
              /\ ~SkippedIntegral => Cardinality(PiecewiseArguments(b)) = 1

C4_Witness ==
    \E b \in Blocks :
        /\ b.block_mode = "partial"
        /\ Cardinality(PiecewiseArguments(b)) = 2
        /\ integral_type = "interior_facet"

\* C5 as claimed: a full monomial of rank 1 or 2 has no piecewise argument
\* table, for every integral type.
C5_Original ==
    \A b \in Blocks :
        (b.block_mode = "full" /\ RankOf(b) \in {1, 2}) =>
            PiecewiseArguments(b) = {}

\* C5 as amended: a full monomial of rank 2 has no piecewise argument table,
\* for every integral type; a full monomial of rank 1 has none unless the
\* integral is a point, custom or interior facet integral.
C5_Full ==
    \A b \in Blocks :
        b.block_mode = "full" =>
            /\ RankOf(b) = 2 => PiecewiseArguments(b) = {}
            /\ (RankOf(b) = 1 /\ ~SkippedIntegral) => PiecewiseArguments(b) = {}

C5_Witness ==
    \E b \in Blocks :
        /\ b.block_mode = "full"
        /\ RankOf(b) = 1
        /\ PiecewiseArguments(b) = {1}
        /\ integral_type = "vertex"

\* C6: with enable-preintegration false every block is safe, and with
\* enable-preintegration true no block is safe.
C6_PreintegrationSwitch ==
    \A b \in Blocks :
        (b.block_mode = "safe") <=> ~parameters.enable_preintegration

\* v is s or is computed, directly or through other vertices, from s.
RECURSIVE ComputedFrom(_, _, _)
ComputedFrom(G, v, s) ==
    \/ v = s
    \/ \E d \in G[v].deps : ComputedFrom(G, d, s)

\* C7: the markers analyse_dependencies returns are 0 or 1; no vertex is both
\* piecewise and varying, an active vertex is exactly one of the two and an
\* inactive vertex is neither.
C7_Partition ==
    pc = "deps_done" =>
        \A i \in 1..Len(FV) :
            /\ FV_active[i] \in {0, 1}
            /\ FV_piecewise[i] \in {0, 1}
            /\ FV_varying[i] \in {0, 1}
            /\ FV_piecewise[i] + FV_varying[i] = FV_active[i]

C7_Witness ==
    /\ pc = "deps_done"
    /\ \E i, j, k \in 1..Len(FV) :
          /\ FV_active[i] = 0
          /\ ~is_modified_terminal(FV[i])
          /\ FV_piecewise[j] = 1
          /\ FV_varying[k] = 1

\* C8 as claimed: a vertex is varying if and only if it is active and is
\* computed from a modified terminal whose table type is varying, uniform or
\* quadrature or which is not cell-wise constant, a terminal with a table of
\* a piecewise type that is not cell-wise constant included.
C8_Original ==
    pc = "deps_done" =>
        \A v \in 1..Len(FV) :
            (FV_varying[v] = 1)
                <=> /\ FV_active[v] = 1
                    /\ \E s \in modified_terminal_indices(FV) :
                          /\ \/ FV[s].ttype \in {"varying", "uniform", "quadrature"}
                             \/ ~FV[s].cellwise
                          /\ ComputedFrom(FV, v, s)

\* C8 as amended: a vertex is varying if and only if it is active and is
\* computed from a modified terminal whose table type is varying, uniform or
\* quadrature, or which has no table and is not cell-wise constant; a
\* terminal with a table of a piecewise type is no source of "varying",
\* cell-wise constant or not.
C8_Varying ==
    pc = "deps_done" =>
        \A v \in 1..Len(FV) :
            (FV_varying[v] = 1)
                <=> /\ FV_active[v] = 1
                    /\ \E s \in modified_terminal_indices(FV) :
                          /\ \/ FV[s].ttype \in {"varying", "uniform", "quadrature"}
                             \/ (FV[s].ttype = "None" /\ ~FV[s].cellwise)
                          /\ ComputedFrom(FV, v, s)

C8_Witness ==
    /\ pc = "deps_done"
    /\ \E s, v \in 1..Len(FV) :
          /\ FV[s].ttype = "piecewise"
          /\ ~FV[s].cellwise
          /\ s \in FV[v].deps
          /\ FV_piecewise[s] = 1
          /\ FV_piecewise[v] = 1
    /\ \E s \in 1..Len(FV) :
          /\ FV[s].ttype = "None"
          /\ ~FV[s].cellwise
          /\ FV_varying[s] = 1

\* The condition under which a block belongs to the shared piecewise
\* contributions.
StoredPiecewise(b) ==
    \/ b.block_mode = "preintegrated"
    \/ /\ b.block_mode \in {"partial", "full", "safe"}
       /\ b.factor_is_piecewise
       /\ PiecewiseArguments(b) = DOMAIN b.ttypes
       /\ ~expect_weight

\* The blocks of the case in hand, in the shared map and in its own.
BlocksInHand ==
    { b \in PiecewiseBlocks : b.num_points = case }
        \cup SeqSet(block_contributions)

\* Every monomial classified so far in the case in hand has its block in
\* exactly one of the two maps.
StoredOnce ==
    /\ pc = "terms" =>
          /\ Cardinality(BlocksInHand) = terms_done
          /\ Cardinality({ b.ma_indices : b \in BlocksInHand }) = terms_done
    /\ PiecewiseBlocks \cap VaryingBlocks = {}
    /\ Len(pir_block_contributions) = Cardinality(PiecewiseBlocks)
    /\ \A c \in DOMAIN varying_irs :
          /\ Len(varying_irs[c].block_contributions)
                 = Cardinality(SeqSet(varying_irs[c].block_contributions))
          /\ \A b \in SeqSet(varying_irs[c].block_contributions) :
                 b.num_points = c
    /\ \A b \in SeqSet(block_contributions) : b.num_points = case

\* C9 as claimed: every block is in exactly one of the two maps, in the
\* shared piecewise map exactly when its factor is piecewise.
C9_Original ==
    /\ StoredOnce
    /\ \A b \in PiecewiseBlocks : b.factor_is_piecewise
    /\ \A b \in VaryingBlocks : ~b.factor_is_piecewise

\* C9 as amended: every block is in exactly one of the two maps; it is in
\* the shared piecewise map exactly when it is preintegrated, or it is
\* partial, full or safe with a piecewise factor, only piecewise argument
\* tables and no quadrature weight expected; every block whose factor is not
\* piecewise is in the varying map of the degree being processed.
C9_Routing ==
    /\ StoredOnce
    /\ \A b \in PiecewiseBlocks : StoredPiecewise(b)
    /\ \A b \in VaryingBlocks : ~StoredPiecewise(b)
    /\ \A b \in Blocks : ~b.factor_is_piecewise => b \in VaryingBlocks

C9_Witness ==
    /\ expect_weight
    /\ \E b \in PiecewiseBlocks : b.block_mode = "preintegrated"
    /\ \E b \in SeqSet(block_contributions) :
          /\ b.block_mode = "full"
          /\ b.factor_is_piecewise
    /\ \E b \in VaryingBlocks : ~b.factor_is_piecewise

\* The blocks generated for degree c, wherever they were stored.
BlocksOfDegree(c) == { b \in Blocks : b.num_points = c }

\* C10: the need_weights flag of a degree is true if and only if quadrature
\* weighting is expected and some block generated for the degree, in either
\* map, is not preintegrated; a rank-0 monomial of a cell integral with
\* weighting expected gives a full block and need_weights = true.
C10_NeedWeights ==
    \A c \in DOMAIN varying_irs :
        /\ varying_irs[c].need_weights
              <=> /\ expect_weight
                  /\ \E b \in BlocksOfDegree(c) : b.block_mode # "preintegrated"
        /\ \A b \in BlocksOfDegree(c) :
              (RankOf(b) = 0 /\ integral_type = "cell" /\ expect_weight) =>
                  /\ b.block_mode = "full"
                  /\ varying_irs[c].need_weights

C10_Witness ==
    /\ Len(varying_irs) = 2
    /\ expect_weight
    /\ ~varying_irs[1].need_weights
    /\ BlocksOfDegree(1) # {}
    /\ varying_irs[2].need_weights
    /\ \E b \in BlocksOfDegree(2) : b.block_mode = "preintegrated"

\* The classes of the active modified terminals of the case in hand.
ActiveClasses ==
    { FV_terminal[i] :
        i \in { j \in modified_terminal_indices(FV) : FV_active[j] = 1 } }

\* The case in hand has just been stored in the IR.
CaseStored == pc = "cases" /\ case >= 1 /\ Len(varying_irs) = case

\* C11 as claimed: for every degree and every integral type, need_points is
\* true if and only if some active modified terminal is a cell-local or a
\* facet-local coordinate.
C11_Original ==
    CaseStored =>
        (varying_irs[case].need_points
            <=> ActiveClasses \cap coordinate_classes # {})

\* C11 as amended: need_points of a degree is true if and only if the
\* integral is a cell integral and some active modified terminal is a
\* CellCoordinate, or the integral is a facet integral and some active
\* modified terminal is a FacetCoordinate; it is false for every other
\* integral type and for the coordinate of the other kind.
C11_NeedPoints ==
    CaseStored =>
        (varying_irs[case].need_points
            <=> \/ integral_type = "cell" /\ "CellCoordinate" \in ActiveClasses
                \/ /\ integral_type \in facet_integral_types
                   /\ "FacetCoordinate" \in ActiveClasses)

C11_Witness ==
    /\ CaseStored
    /\ case = 2
    /\ integral_type = "interior_facet"
    /\ varying_irs[1].need_points
    /\ ~varying_irs[2].need_points
    /\ "CellCoordinate" \in ActiveClasses
    /\ \E i \in modified_terminal_indices(FV) :
          FV_terminal[i] = "FacetCoordinate" /\ FV_active[i] = 0

\* The table names the active modified terminals of the case have.
ActiveTerminalNames ==
    { mt_unames[i] :
        i \in { j \in 1..Len(FV) : FV_active[j] = 1 /\ mt_unames[j] # NoName } }

\* A block refers to the table of its own, if it was preintegrated or
\* premultiplied, and otherwise to the tables of its arguments.
RefersTo(b, n) ==
    IF b.block_mode \in {"preintegrated", "premultiplied"}
    THEN b.name = n
    ELSE \E i \in DOMAIN b.ma_data : b.ma_data[i].name = n

\* C12: when a degree has been stored, every table it has added to the
\* tables of the IR is referred to by an active modified terminal of the
\* degree or by a block in the contributions of the degree or in the shared
\* ones, and has a recorded type other than zeros, ones and quadrature; the
\* table of a terminal whose type is zeros is not among them.
C12_Pruned ==
    CaseStored =>
        /\ \A n \in DOMAIN unique_tables :
              /\ n \in DOMAIN ir_unique_tables
              /\ ir_unique_tables[n] = unique_tables[n]
              /\ \/ n \in ActiveTerminalNames
                 \/ \E b \in SeqSet(block_contributions) : RefersTo(b, n)
                 \/ \E b \in SeqSet(pir_block_contributions) : RefersTo(b, n)
              /\ ir_unique_table_types[n] \notin {"zeros", "ones", "quadrature"}
        /\ \A i \in modified_terminal_indices(FV) :
              FV[i].ttype = "zeros" => mt_unames[i] \notin DOMAIN unique_tables

\* C12 happens: the second degree adds a table that only a block of the
\* first degree refers to, while a table of zeros that an active terminal
\* has and the table of ones of its own argument are dropped.
C12_Witness ==
    /\ CaseStored
    /\ case = 2
    /\ \E n \in DOMAIN unique_tables :
          /\ n \notin ActiveTerminalNames
          /\ \A b \in Blocks : RefersTo(b, n) => b.num_points = 1
    /\ \E i \in modified_terminal_indices(FV) :
          /\ FV[i].ttype = "zeros"
          /\ FV_active[i] = 1
    /\ \E b \in Blocks :
          /\ b.num_points = 2
          /\ b.block_mode = "full"
          /\ b.ttypes[1] = "ones"
          /\ b.ma_data[1].name \in DOMAIN table_types
          /\ b.ma_data[1].name \notin DOMAIN unique_tables

\* The blocks of a mode, of every degree.
BlocksOfMode(mode) == { b \in Blocks : b.block_mode = mode }

\* Blocks of one mode have the same table exactly when their monomials have
\* the same table names.
SameNameIffSameTables(mode) ==
    \A b1, b2 \in BlocksOfMode(mode) :
        (b1.name = b2.name) <=> (b1.argument_unames = b2.argument_unames)

\* A step leaves every entry of a cache as it is.
CacheKept(cache, cache_after) ==
    \A k \in DOMAIN cache :
        k \in DOMAIN cache_after /\ cache_after[k] = cache[k]

\* The block a step has added to a list of contributions, if it has.
Added(contributions, contributions_after) ==
    IF Len(contributions_after) = Len(contributions) + 1
    THEN { contributions_after[Len(contributions_after)] }
    ELSE {}

\* A step that classifies a monomial whose table names are in the cache of
\* its mode adds no table and no table type.
HitComputesNothing ==
    \A b \in Added(block_contributions, block_contributions')
               \cup Added(pir_block_contributions, pir_block_contributions') :
        (\/ /\ b.block_mode = "preintegrated"
            /\ b.argument_unames \in DOMAIN preintegrated_blocks
         \/ /\ b.block_mode = "premultiplied"
            /\ b.argument_unames \in DOMAIN premultiplied_blocks)
        => /\ unique_tables' = unique_tables
           /\ table_types' = table_types

\* C13: over all monomials of all degrees of a build, two preintegrated
\* blocks have the same table name exactly when they have the same tuple of
\* argument table names, and so have two premultiplied blocks; no step
\* changes or removes an entry of either cache, and a step that finds the
\* names of its monomial in the cache computes no table.
C13_Cache ==
    /\ [](SameNameIffSameTables("preintegrated")
            /\ SameNameIffSameTables("premultiplied"))
    /\ [][/\ CacheKept(preintegrated_blocks, preintegrated_blocks')
          /\ CacheKept(premultiplied_blocks, premultiplied_blocks')
          /\ HitComputesNothing]_vars

\* C13 happens: a block of the second degree has the table a block of the
\* first degree was preintegrated with, and two premultiplied blocks of
\* other table names have two tables.
C13_Witness ==
    /\ \E b1, b2 \in BlocksOfMode("preintegrated") :
          /\ b1.num_points = 1
          /\ b2.num_points = 2
          /\ b1.name = b2.name
    /\ \E b1, b2 \in BlocksOfMode("premultiplied") :
          /\ b1.argument_unames # b2.argument_unames
          /\ b1.name # b2.name

\* The names a cache of n entries holds are those numbered 0 .. n-1.
CacheNames(cache, prefix) ==
    Range(cache) =
        { TableName(prefix, k) : k \in 0..(Cardinality(DOMAIN cache) - 1) }

\* A key a step inserts gets the number of entries the cache had, and the
\* entries it had stay.
CacheCounts(cache, cache_after, prefix) ==
    /\ CacheKept(cache, cache_after)
    /\ \A k \in DOMAIN cache_after \ DOMAIN cache :
          cache_after[k] = TableName(prefix, Cardinality(DOMAIN cache))

\* C14: at every point of a build the names in the preintegrated cache are
\* exactly PI0 .. PI(n-1), n being its size, the key inserted when the cache
\* had k entries having the name PIk ever after; the premultiplied cache has
\* the names PM0 .. PM(m-1) in the same way, counted on its own.
C14_Names ==
    /\ [](CacheNames(preintegrated_blocks, "PI")
            /\ CacheNames(premultiplied_blocks, "PM"))
    /\ [][/\ CacheCounts(preintegrated_blocks, preintegrated_blocks', "PI")
          /\ CacheCounts(premultiplied_blocks, premultiplied_blocks', "PM")]_vars

\* C14 happens: the preintegrated cache holds PI0 and PI1 when the first
\* premultiplied table is made, of a later degree, and is named PM0.
C14_Witness ==
    /\ Range(preintegrated_blocks) = { TableName("PI", 0), TableName("PI", 1) }
    /\ Range(premultiplied_blocks) = { TableName("PM", 0) }
    /\ \E b \in BlocksOfMode("premultiplied") : b.num_points = 2
    /\ \A b \in BlocksOfMode("preintegrated") : b.num_points = 1

\* table(entity, q, dof): a table of a single entity is read at its only
\* entity, one of a single point at its only point, and a table that is not
\* there counts 1.
table_value(tbl, entity, q, dof) ==
    IF tbl = NoTable THEN 1
    ELSE tbl[IF Len(tbl) = 1 THEN 1 ELSE entity]
            [IF Len(tbl[1]) = 1 THEN 1 ELSE q][dof]

\* The sum over the points 1..q of weight(q) times the product over the
\* arguments of table(entity, q, dof).
RECURSIVE quadrature_sum(_, _, _, _, _)
quadrature_sum(q, w, tables, entity, dofs) ==
    IF q = 0 THEN 0
    ELSE quadrature_sum(q - 1, w, tables, entity, dofs)
         + w[q] * (IF Len(tables) = 1
                   THEN table_value(tables[1], entity, q, dofs[1])
                   ELSE table_value(tables[1], entity, q, dofs[1])
                        * table_value(tables[2], entity, q, dofs[2]))

\* A table is the table of those sums: an entity for every entity of the
\* largest argument table, and the dofs of the arguments.
IsIntegral(P, w, unames, tables, num_dofs) ==
    LET args == [ i \in DOMAIN unames |-> table_get(tables, unames[i]) ]
        nd   == [ i \in DOMAIN unames |-> num_dofs[unames[i]] ]
    IN  /\ DOMAIN P = 1..Max({1} \cup { Len(args[i]) : i \in DOMAIN args })
        /\ \A e \in DOMAIN P :
              /\ DOMAIN P[e] = 1..nd[1]
              /\ \A d1 \in 1..nd[1] :
                    IF Len(unames) = 1
                    THEN P[e][d1] = quadrature_sum(Len(w), w, args, e, << d1 >>)
                    ELSE /\ DOMAIN P[e][d1] = 1..nd[2]
                         /\ \A d2 \in 1..nd[2] :
                               P[e][d1][d2] =
                                   quadrature_sum(Len(w), w, args, e, << d1, d2 >>)

\* C16: for one and for two arguments integrate_block returns the table P
\* with P[entity, dofs] the sum over the points q of weight(q) times the
\* product over the arguments of table(entity, q, dof); for two tables u, v
\* of shape (1, 1, 2) and a single weight w, P has the shape (1, 2, 2) and
\* P[0, i, j] = w * u[i] * v[j].
C16_Integrate ==
    (pc = "integrated" /\ Len(ma_unames) \in {1, 2}) =>
        /\ IsIntegral(ptable, weights, ma_unames, unique_tables, table_num_dofs)
        /\ \A u, v \in Range(unique_tables) :
              (/\ Len(weights) = 1
               /\ Len(ma_unames) = 2
               /\ ma_unames[1] \in DOMAIN unique_tables
               /\ ma_unames[2] \in DOMAIN unique_tables
               /\ u = unique_tables[ma_unames[1]]
               /\ v = unique_tables[ma_unames[2]]
               /\ Len(u) = 1 /\ Len(u[1]) = 1 /\ Len(u[1][1]) = 2
               /\ Len(v) = 1 /\ Len(v[1]) = 1 /\ Len(v[1][1]) = 2)
              => ptable =
                   << [ i \in 1..2 |->
                          [ j \in 1..2 |-> weights[1] * u[1][1][i] * v[1][1][j] ] ] >>

\* C16 happens: a table of two entities, two points and two dofs has been
\* integrated with a table of one entity and one point and with two
\* weights, and another with a table of ones that is not there.
C16_Witness ==
    /\ pc = "integrated"
    /\ Len(ma_unames) = 2
    /\ Len(weights) = 2
    /\ ma_unames[1] \in DOMAIN unique_tables
    /\ Len(unique_tables[ma_unames[1]]) = 2
    /\ Len(unique_tables[ma_unames[1]][1]) = 2
    /\ table_num_dofs[ma_unames[1]] = 2
    /\ ma_unames[2] \notin DOMAIN unique_tables
    /\ table_types[ma_unames[2]] = "ones"
    /\ table_num_dofs[ma_unames[2]] = 2
    /\ ptable[2][2][1] # ptable[1][1][2]

\* The table a name stands for while a degree is processed: that of the
\* degree or, if it has none of the name, that of the IR.
TableInHand(name) == table_get(dict_update(ir_unique_tables, unique_tables), name)

EndOfDegree ==
    /\ pc = "terms"
    /\ terms_done = Cardinality(DOMAIN argument_factorization)

\* A table the degree keeps has a name that is among the tables of the IR
\* with other values.
KeptTableDiffers ==
    \E n \in DOMAIN unique_tables' \cap DOMAIN ir_unique_tables :
        ir_unique_tables[n] # unique_tables'[n]

\* C17: the step that ends a degree fails with "Table values mismatch with
\* same name." when a table the degree keeps is among the tables of the IR
\* under its name with other values, and the build then takes no further
\* step: it never returns, neither the IRs of the degrees before nor that
\* of the failed one, which is not stored; otherwise the degree is stored,
\* the build goes on, every kept table is among those of the IR and every
\* name that was there is there still with its values.
C17_Mismatch ==
    /\ [](error # "none" => pc = "error")
    /\ [][/\ pc # "error"
          /\ EndOfDegree =>
                IF KeptTableDiffers
                THEN /\ pc' = "error"
                     /\ error' = "Table values mismatch with same name."
                     /\ varying_irs' = varying_irs
                     /\ ir_unique_tables' = ir_unique_tables
                ELSE /\ pc' = "cases"
                     /\ error' = "none"
                     /\ Len(varying_irs') = case
                     /\ \A n \in DOMAIN unique_tables' :
                           /\ n \in DOMAIN ir_unique_tables'
                           /\ ir_unique_tables'[n] = unique_tables'[n]
                     /\ \A n \in DOMAIN ir_unique_tables :
                           /\ n \in DOMAIN ir_unique_tables'
                           /\ ir_unique_tables'[n] = ir_unique_tables[n]]_vars

\* C17 happens: the second degree has failed on a table of the shape of the
\* one the first degree has left under the same name, and the IR of the
\* first degree is all there is.
C17_Witness ==
    /\ pc = "error"
    /\ error = "Table values mismatch with same name."
    /\ case = 2
    /\ Len(varying_irs) = 1
    /\ \E n \in DOMAIN unique_tables \cap DOMAIN ir_unique_tables :
          /\ ir_unique_tables[n] = unit_table
          /\ unique_tables[n] = other_unit_table

\* The blocks of the degree being processed, while its arguments are at hand.
BlocksOfCase == { b \in Blocks : b.num_points = case }

\* The dof ranges of the arguments of a block.
DofRanges(b) == [ i \in DOMAIN b.ma_indices |-> ma_dofrange[b.ma_indices[i]] ]

\* The sides of the arguments of a block whose table is not uniform, "None"
\* standing for the arguments whose table is.
Sides(b) ==
    [ i \in DOMAIN b.ma_indices |->
        IF b.ttypes[i] \in uniform_ttypes THEN "None"
        ELSE ma_restriction[b.ma_indices[i]] ]

\* C18 as stated: in an interior-facet integral two blocks of a degree with
\* the same dof ranges and another side on an argument whose table is not
\* uniform are stored under two keys.
C18_Original ==
    integral_type = "interior_facet" =>
        \A b1, b2 \in BlocksOfCase :
            (DofRanges(b1) = DofRanges(b2) /\ Sides(b1) # Sides(b2))
                => b1.dofblock # b2.dofblock

\* C18, amended: in every integral the key a block is stored under is the
\* tuple of the dof ranges of its arguments and nothing else; the sides of
\* the arguments whose table is not uniform are kept in the restrictions of
\* the block, so two blocks with the same dof ranges have the same key and,
\* if their sides differ, other restrictions.
C18_Key ==
    \A b1, b2 \in BlocksOfCase :
        /\ b1.dofblock = DofRanges(b1)
        /\ b1.restrictions = Sides(b1)
        /\ (DofRanges(b1) = DofRanges(b2)) => (b1.dofblock = b2.dofblock)

\* C18 happens: in an interior-facet integral two blocks with the same dof
\* range, one of the side '+' and one of the side '-', are there.
C18_Witness ==
    /\ integral_type = "interior_facet"
    /\ \E b1, b2 \in BlocksOfCase :
          /\ DofRanges(b1) = DofRanges(b2)
          /\ Sides(b1) = << "+" >>
          /\ Sides(b2) = << "-" >>

\* The types of the modifiers of the expression analysed.
ModifierTypes == { expr.modifiers[i].type : i \in DOMAIN expr.modifiers }

\* The modifiers of the expression would give a descriptor with a local
\* derivative of a value that is not a reference value, or with a global
\* derivative of a reference value.
IllegalStack ==
    \/ "ReferenceGrad" \in ModifierTypes /\ "ReferenceValue" \notin ModifierTypes
    \/ "Grad" \in ModifierTypes /\ "ReferenceValue" \in ModifierTypes

\* C20: a descriptor that analyse_modified_terminal returns has local
\* derivatives only if it is a reference value and global derivatives only
\* if it is not; of an expression whose modifiers would give anything else
\* the analysis fails and returns no descriptor.
C20_Derivatives ==
    /\ pc = "analysed" =>
          /\ mt.local_derivatives # << >> => mt.reference_value
          /\ mt.global_derivatives # << >> => ~mt.reference_value
    /\ (pc # "analyse" /\ IllegalStack) =>
          /\ pc = "error"
          /\ error # "none"
          /\ mt = NoDescriptor

\* C20 happens: a descriptor with a local derivative has been returned.
C20_Witness ==
    /\ pc = "analysed"
    /\ mt.local_derivatives # << >>
    /\ mt.reference_value

\* The two descriptors agree on the terminal, on reference_value, on
\* flat_component, on the derivatives, on averaged and on restriction.
AgreeButComponent ==
    /\ mt.terminal = mt_other.terminal
    /\ mt.reference_value = mt_other.reference_value
    /\ mt.flat_component = mt_other.flat_component
    /\ mt.global_derivatives = mt_other.global_derivatives
    /\ mt.local_derivatives = mt_other.local_derivatives
    /\ mt.averaged = mt_other.averaged
    /\ mt.restriction = mt_other.restriction

\* C19 as stated: two descriptors are equal exactly when they agree on
\* every field but base_shape, the component among them.
C19_Original ==
    result.op = "eq" =>
        ((result.value = "True")
            <=> (AgreeButComponent /\ mt.component = mt_other.component))

\* What "<" is to give when the two descriptors have the same terminal:
\* the order of the first of reference_value, flat_component,
\* global_derivatives, local_derivatives, averaged and restriction in which
\* they differ, or nothing said when that is None on one side.
LtExpected ==
    IF mt.reference_value # mt_other.reference_value
    THEN { Bool(mt_other.reference_value) }
    ELSE IF mt.flat_component # mt_other.flat_component
    THEN { Bool(mt.flat_component < mt_other.flat_component) }
    ELSE IF mt.global_derivatives # mt_other.global_derivatives
    THEN { Bool(TupleLess(mt.global_derivatives, mt_other.global_derivatives)) }
    ELSE IF mt.local_derivatives # mt_other.local_derivatives
    THEN { Bool(TupleLess(mt.local_derivatives, mt_other.local_derivatives)) }
    ELSE IF mt.averaged # mt_other.averaged
    THEN IF "None" \in { mt.averaged, mt_other.averaged }
         THEN { "True", "False", "TypeError" }
         ELSE { Bool(mt.averaged = "cell") }
    ELSE IF mt.restriction # mt_other.restriction
    THEN IF "None" \in { mt.restriction, mt_other.restriction }
         THEN { "True", "False", "TypeError" }
         ELSE { Bool(mt.restriction = "+") }
    ELSE { "False" }

\* C19, amended: two descriptors are equal exactly when they agree on the
\* terminal, reference_value, flat_component, global_derivatives,
\* local_derivatives, averaged and restriction, whatever their component,
\* base_shape and expression; descriptors that agree on those have the same
\* hash; and "<" of two descriptors of one terminal is the order of the
\* first of those fields, in that order, in which they differ.
C19_Compare ==
    /\ result.op = "eq" => ((result.value = "True") <=> AgreeButComponent)
    /\ (result.op = "hash" /\ AgreeButComponent) => result.value = "equal"
    /\ (result.op = "lt" /\ mt.terminal = mt_other.terminal) =>
          result.value \in LtExpected

\* C19 happens: two descriptors of other components have been found equal.
C19_Witness ==
    /\ result.op = "eq"
    /\ result.value = "True"
    /\ mt.component # mt_other.component

\* The modifiers of the expression analysed of the given types, in number.
CountOf(types) ==
    Cardinality({ i \in DOMAIN expr.modifiers : expr.modifiers[i].type \in types })

gradient_types == {"Grad", "ReferenceGrad"}

\* The expression analysed is indexed once, with fixed indices, every
\* gradient is inside the indexing and has an index to consume; or it has
\* neither an index nor a gradient.
WellIndexed ==
    /\ CountOf({"Indexed"}) <= 1
    /\ \A i \in DOMAIN expr.modifiers :
          LET m == expr.modifiers[i]
          IN  /\ m.type = "Indexed" =>
                    /\ m.fixed
                    /\ CountOf(gradient_types) <= Len(m.indices)
              /\ m.type \in gradient_types =>
                    \E j \in 1..(i - 1) : expr.modifiers[j].type = "Indexed"

\* What remains of the index tuple of such an expression after each
\* gradient has consumed its last entry.
RemainingComponent ==
    IF CountOf({"Indexed"}) = 0 THEN << >>
    ELSE LET m == expr.modifiers[CHOOSE i \in DOMAIN expr.modifiers :
                                     expr.modifiers[i].type = "Indexed"]
         IN  SubSeq(m.indices, 1, Len(m.indices) - CountOf(gradient_types))

\* The shape the component refers to.
ShapeReferredTo ==
    IF CountOf({"ReferenceValue"}) > 0
    THEN expr.terminal.reference_value_shape
    ELSE expr.terminal.ufl_shape

InShape(component, shape) ==
    /\ Len(component) = Len(shape)
    /\ \A k \in 1..Len(component) : 0 <= component[k] /\ component[k] < shape[k]

\* C21: a descriptor that analyse_modified_terminal returns has a component
\* of the length of its base_shape with every index within its axis, the
\* component being what the gradients have left of the index tuple; of an
\* expression whose remaining component has another length or an index out
\* of range the analysis fails and returns no descriptor.
C21_Component ==
    /\ pc = "analysed" =>
          /\ InShape(mt.component, mt.base_shape)
          /\ mt.component = RemainingComponent
          /\ mt.base_shape = ShapeReferredTo
    /\ (pc # "analyse" /\ WellIndexed
           /\ ~InShape(RemainingComponent, ShapeReferredTo)) =>
          /\ pc = "error"
          /\ error # "none"
          /\ mt = NoDescriptor

\* C21 happens: the analysis has failed on the index that a gradient has
\* left of two, which lies beyond the one component of the terminal.
C21_Witness ==
    /\ pc = "error"
    /\ error = "Component indices are outside value shape"
    /\ CountOf({"Grad"}) = 1
    /\ RemainingComponent = << 1 >>
    /\ ShapeReferredTo = << 1 >>

averaging_types == {"CellAvg", "FacetAvg"}

\* The types the loop has a branch for.
handled_types ==
    {"Indexed", "ReferenceValue", "ReferenceGrad", "Grad", "Restricted"}
        \cup averaging_types

\* A category of modifiers occurs twice in the expression analysed.
TwiceModified ==
    \/ CountOf({"ReferenceValue"}) >= 2
    \/ CountOf({"Restricted"}) >= 2
    \/ CountOf(averaging_types) >= 2
    \/ CountOf({"Indexed"}) >= 2

\* The expression analysed has a node of a type without a branch.
Unhandled == ModifierTypes \ handled_types # {}

\* C22 as stated: an expression with each category at most once, without
\* an unhandled node and with legal derivatives is accepted.
C22_Original ==
    (pc # "analyse" /\ ~TwiceModified /\ ~Unhandled /\ ~IllegalStack) =>
        pc = "analysed"

\* C22: the analysis fails on every expression in which a category of
\* modifiers occurs twice and on every expression with a node of a type it
\* has no branch for; it accepts an expression exactly if, besides, the
\* derivatives are legal, the indexing is fixed and gives every gradient an
\* index, the remaining component is in the shape referred to, and the
\* shape of a reference value has at most one axis.
C22_Stack ==
    /\ (pc # "analyse" /\ (TwiceModified \/ Unhandled)) =>
          (pc = "error" /\ error # "none" /\ mt = NoDescriptor)
    /\ pc # "analyse" =>
          (pc = "analysed" <=>
              /\ ~TwiceModified
              /\ ~Unhandled
              /\ ~IllegalStack
              /\ WellIndexed
              /\ InShape(RemainingComponent, ShapeReferredTo)
              /\ (CountOf({"ReferenceValue"}) > 0 =>
                     Len(expr.terminal.reference_value_shape) <= 1))

\* C22 happens: the analysis has failed on a second restriction, on a
\* second averaging of the other kind, or on an unhandled node.
C22_Witness ==
    /\ pc = "error"
    /\ Len(expr.modifiers) = 2
    /\ \/ error = "Got twice averaged terminal!" /\ ModifierTypes = averaging_types
       \/ error = "Got twice restricted terminal!"
       \/ error = "Unexpected type"

\* What the loop has found when it comes to the i-th modifier.
FoundBefore(i) == strip_modifiers(NothingFound, SubSeq(expr.modifiers, 1, i - 1), 1)

\* The loop comes to a gradient while no component index is available:
\* none has been consumed yet, or all have been used by earlier gradients.
GradientWithoutIndex ==
    \E i \in DOMAIN expr.modifiers :
        /\ expr.modifiers[i].type \in gradient_types
        /\ FoundBefore(i).error = "none"
        /\ FoundBefore(i).component \in {NoComponent, << >>}

\* The failures of a gradient that are the analyser's own.
gradient_errors ==
    {"Got local gradient of terminal without prior indexing.",
     "Got gradient of terminal without prior indexing."}

\* C23: whenever a gradient is stripped while no component index is
\* available, before any indexing or after earlier gradients have used
\* every index, the analysis fails with its own error for that case.
C23_Gradient ==
    (pc # "analyse" /\ GradientWithoutIndex) =>
        (pc = "error" /\ error \in gradient_errors)

NonDecreasing(s) == \A i \in 1..(Len(s) - 1) : s[i] <= s[i + 1]

\* The gradients of an expression, in number.
NumGradients(e) ==
    Cardinality({ i \in DOMAIN e.modifiers : e.modifiers[i].type \in gradient_types })

\* The directions the gradients of an expression of the form above are
\* taken in: the last indices, one for each gradient.
Directions(e) ==
    SubSeq(e.modifiers[1].indices,
           Len(e.modifiers[1].indices) - NumGradients(e) + 1,
           Len(e.modifiers[1].indices))

\* The number of times a direction occurs among directions.
Occurrences(d, s) == Cardinality({ i \in DOMAIN s : s[i] = d })

\* Two expressions of the form above differ at most in the order in which
\* the same directions are applied to the same terminal.
SameButOrder(e, f) ==
    /\ e.terminal = f.terminal
    /\ Tail(e.modifiers) = Tail(f.modifiers)
    /\ Len(e.modifiers[1].indices) = Len(f.modifiers[1].indices)
    /\ \A i \in 1..(Len(e.modifiers[1].indices) - NumGradients(e)) :
          e.modifiers[1].indices[i] = f.modifiers[1].indices[i]
    /\ \A d \in index_values :
          Occurrences(d, Directions(e)) = Occurrences(d, Directions(f))

\* C27: the derivatives of a descriptor are non-decreasing tuples of the
\* directions applied, so the descriptors of two expressions that differ
\* only in the order of the same directions on the same terminal are equal.
C27_Sorted ==
    /\ \A d \in {mt, mt_other} :
          /\ NonDecreasing(d.global_derivatives)
          /\ NonDecreasing(d.local_derivatives)
          /\ \A x \in index_values :
                Occurrences(x, d.global_derivatives \o d.local_derivatives)
                    = Occurrences(x, Directions(d.expr))
    /\ (result.op = "eq" /\ SameButOrder(mt.expr, mt_other.expr)) =>
          result.value = "True"

\* C27 happens: two descriptors of the same directions applied in another
\* order have been found equal.
C27_Witness ==
    /\ result.op = "eq"
    /\ result.value = "True"
    /\ SameButOrder(mt.expr, mt_other.expr)
    /\ Directions(mt.expr) # Directions(mt_other.expr)

\* The terminals of the rebuilt target expressions.
RebuiltTerminals ==
    UNION { terminals_of(expressions[k]) : k \in DOMAIN expressions }

\* C24: after the terminals are replaced and the changes propagated in one
\* pass over the vertices in ascending order, no rebuilt target expression
\* contains a quadrature weight or a terminal with a table of zeros: every
\* vertex that was a quadrature weight is the literal 1 whatever its table,
\* every other terminal with a table of zeros is the literal 0, the other
\* terminals are as they were, and every operator has the vertices it
\* depends on as operands.
C24_Rewritten ==
    /\ \A t \in RebuiltTerminals : t.op # "QuadratureWeight" /\ t.ttype # "zeros"
    /\ \A i \in DOMAIN initial_terminal_data :
          V[i] = (IF initial_terminal_data[i].op = "QuadratureWeight" THEN one
                  ELSE IF initial_terminal_data[i].ttype = "zeros" THEN z
                  ELSE initial_terminal_data[i])
    /\ \A i \in DOMAIN V \ DOMAIN initial_terminal_data :
          V[i].operands = [ k \in DOMAIN V_deps[i] |-> V[V_deps[i][k]] ]

\* C24 happens: the target is an operator on an operator on a quadrature
\* weight with a table of zeros, which has become the literal 1.
C24_Witness ==
    /\ pc = "factorize"
    /\ Len(V) = 3
    /\ initial_terminal_data[1].op = "QuadratureWeight"
    /\ initial_terminal_data[1].ttype = "zeros"
    /\ V_deps[2] = << 1 >>
    /\ V_deps[3] = << 2 >>
    /\ V_targets = << 3 >>
    /\ expressions[1].operands[1].operands[1] = one

\* The build has come to the factorization of a case, or beyond.
Factorized == pc \in {"factorize", "terms", "done"} \/ case > 0

\* C25: the build goes on to the factorization and the classification of a
\* case only when the case has exactly one expression and its graph exactly
\* one target, which gives one rebuilt expression to factorize; with more
\* than one expression the build ends in a failure before any case is
\* factorized and no block is ever classified.
C25_OneExpression ==
    /\ Factorized =>
          /\ num_expressions = 1
          /\ Len(V_targets) = 1
          /\ Len(expressions) = 1
    /\ (num_expressions > 1 /\ pc # "cases") =>
          /\ pc = "error"
          /\ error = "FIXME: Multiple expressions in graph building needs more work from this point on."
          /\ case = 0
          /\ pir_block_contributions = << >>
          /\ varying_irs = << >>
    /\ (Len(V_targets) > 1) => pc = "error"

\* C25 happens: expression mode given two expressions has aborted the
\* build.
C25_Witness ==
    /\ integral_type = "expression"
    /\ num_expressions = 2
    /\ pc = "error"

\* The table data of the vertices of the case in hand.
V_table_data ==
    [ i \in DOMAIN FV |->
        IF mt_unames[i] = NoName THEN NoTableData
        ELSE table_data_t(mt_unames[i], table_types[mt_unames[i]]) ]

\* The shared piecewise vertex list holds every vertex once, pe2i maps
\* every vertex of the list to its position, and the three lists of the
\* piecewise IR have the same length.
SharedListsAgree ==
    /\ Len(pir_V_active) = Len(pir_V)
    /\ Len(pir_V_table_data) = Len(pir_V)
    /\ \A p \in DOMAIN pir_V_active : pir_V_active[p] = 1
    /\ \A p, q \in DOMAIN pir_V : pir_V[p] = pir_V[q] => p = q
    /\ DOMAIN pe2i = Range(pir_V)
    /\ \A v \in DOMAIN pe2i : pe2i[v] \in DOMAIN pir_V /\ pir_V[pe2i[v]] = v
    /\ pc = "terms" =>
          \A i \in DOMAIN FV : FV_piecewise[i] = 1 => FV_expr[i] \in DOMAIN pe2i

\* A step leaves every vertex of the list and its table data where they
\* are; the vertices it appends are the piecewise vertices of the degree
\* that were not in the list, in the order of the degree, with the table
\* data of the degree.
FirstDiscoveryKept ==
    /\ Len(pir_V') >= Len(pir_V)
    /\ \A p \in DOMAIN pir_V :
          /\ pir_V'[p] = pir_V[p]
          /\ pir_V_table_data'[p] = pir_V_table_data[p]
    /\ \A p \in DOMAIN pir_V' \ DOMAIN pir_V :
          \E i \in DOMAIN FV' :
              /\ FV_expr'[i] = pir_V'[p]
              /\ FV_piecewise'[i] = 1
              /\ FV_expr'[i] \notin Range(pir_V)
              /\ pir_V_table_data'[p] =
                     (IF mt_unames'[i] = NoName THEN NoTableData
                      ELSE table_data_t(mt_unames'[i], table_types'[mt_unames'[i]]))
              /\ \A q \in DOMAIN pir_V' \ DOMAIN pir_V :
                    p < q => \E j \in DOMAIN FV' :
                                 FV_expr'[j] = pir_V'[q] /\ i < j

\* C28: the shared piecewise vertex list holds each piecewise vertex exactly
\* once, at the position of its first discovery, pe2i maps each vertex to
\* that position, and V, V_active and V_table_data of the piecewise IR have
\* the same length; a vertex found piecewise again by a later degree is not
\* appended again and keeps the table data of its first discovery.
C28_SharedVertices == []SharedListsAgree /\ [][FirstDiscoveryKept]_vars

\* C28 happens: the piecewise vertex of the second degree is in the list
\* since the first, which is not where it is in the degree, with other
\* table data than it has in the second, and the list has not grown.
C28_Witness ==
    /\ pc = "terms"
    /\ case = 2
    /\ \E i \in DOMAIN FV :
          /\ FV_piecewise[i] = 1
          /\ pe2i[FV_expr[i]] # i
          /\ pir_V_table_data[pe2i[FV_expr[i]]] # V_table_data[i]
    /\ Len(pir_V) = 1

\* The factor of every monomial of the degree in hand that is piecewise is a
\* key of pe2i, and every modified argument of the degree is a key of the
\* indices of the shared modified arguments.
LookupsDefined ==
    pc = "terms" =>
        /\ \A k \in DOMAIN argument_factorization :
               FV_piecewise[argument_factorization[k]] = 1 =>
                   FV_expr[argument_factorization[k]] \in DOMAIN pe2i
        /\ \A a \in DOMAIN modified_arguments :
               modified_arguments[a] \in DOMAIN piecewise_modified_argument_indices

\* The factor index of a block is a position of the shared list that holds
\* its factor when the factor is piecewise, and the index of the factor in
\* the vertices of its degree when it is not.
FactorIndexed(b) ==
    IF b.factor_is_piecewise
    THEN /\ b.factor_index \in DOMAIN pir_V
         /\ pir_V[b.factor_index] = b.factor_expr
    ELSE b.factor_index = b.fi

\* The same of the arguments of a block that carries argument data.
ArgumentsIndexed(b) ==
    b.block_mode \in {"partial", "full", "safe"} =>
        /\ Len(b.ma_data) = Len(b.ma_indices)
        /\ \A i \in DOMAIN b.ma_data :
               IF b.ma_data[i].is_piecewise
               THEN /\ b.ma_data[i].ma_index \in DOMAIN pir_modified_arguments
                    /\ pir_modified_arguments[b.ma_data[i].ma_index]
                           = b.arguments[i]
               ELSE b.ma_data[i].ma_index = b.ma_indices[i]

\* C29: no lookup of a piecewise factor in pe2i or of a piecewise argument
\* in the indices of the shared modified arguments fails, and in every block
\* of every degree a piecewise factor or argument is indexed by its position
\* in the shared list and any other by its index in its own degree.
C29_SharedIndices ==
    /\ LookupsDefined
    /\ \A b \in Blocks : FactorIndexed(b) /\ ArgumentsIndexed(b)

\* C29 happens: a block of the second degree has a piecewise factor and a
\* piecewise argument that the shared lists hold at other positions than the
\* degree does.
C29_Witness ==
    /\ case = 2
    /\ \E b \in Blocks :
          /\ b.num_points = 2
          /\ b.block_mode \in {"partial", "full", "safe"}
          /\ b.factor_is_piecewise
          /\ b.factor_index # b.fi
          /\ \E i \in DOMAIN b.ma_data :
                /\ b.ma_data[i].is_piecewise
                /\ b.ma_data[i].ma_index # b.ma_indices[i]

\* The table names collected as active at the end of the degree in hand.
ActiveNames ==
    active_table_names(FV_active, mt_unames, block_contributions,
                       pir_block_contributions)

\* At the end of a degree every active name has its type among the types of
\* the degree or among those the earlier degrees recorded.
ActiveNamesTyped ==
    EndOfDegree =>
        ActiveNames \subseteq
            (DOMAIN ir_unique_table_types \cup DOMAIN table_types)

\* The end of a degree leaves the table of the IR of every name that the
\* degree has no table for as it is.
EarlierTablesKept ==
    (EndOfDegree /\ pc' = "cases") =>
        \A name \in DOMAIN ir_unique_tables :
            name \notin DOMAIN unique_tables =>
                /\ name \in DOMAIN ir_unique_tables'
                /\ ir_unique_tables'[name] = ir_unique_tables[name]

\* C30: when the tables of a degree are pruned, every active name, the
\* names of the blocks of earlier degrees and the names found in the caches
\* included, has a type in the types recorded for the IR, so that no lookup
\* of a type fails; and the table an earlier degree registered under a name
\* that the degree in hand has no table for is left unchanged.
C30_Pruning ==
    /\ [](ActiveNamesTyped /\ error # "KeyError")
    /\ [][EarlierTablesKept]_vars

\* C30 happens: the second degree has ended with a block named by a hit in
\* a cache, a name the degree has neither a type nor a table for, and the
\* table of the first degree is in the tables of the IR; a piecewise block of
\* the first degree refers to a name that the second has no type for.
C30_Witness ==
    /\ pc = "cases"
    /\ Len(varying_irs) = 2
    /\ \E b \in Blocks :
          /\ b.num_points = 2
          /\ b.name # NoName
          /\ b.name \notin DOMAIN table_types
          /\ b.name \notin DOMAIN unique_tables
          /\ b.name \in DOMAIN ir_unique_tables
    /\ \E b \in PiecewiseBlocks :
          /\ b.num_points = 1
          /\ \E name \in block_table_names(b) : name \notin DOMAIN table_types

\* The degrees are in ascending order of their number of points, whatever
\* the order the integrands came in, and are just the keys of the integrands.
AscendingDegrees ==
    /\ \A i, j \in DOMAIN all_num_points :
           i < j => all_num_points[i] < all_num_points[j]
    /\ Range(all_num_points) = Range(integrands_keys)
    /\ Len(all_num_points) = Len(integrands_keys)

\* The degrees are gone through one at a time in that order: the IR of the
\* c-th degree finished is that of the c-th number of points.
DegreesInOrder ==
    /\ Len(varying_irs) \in { case - 1, case } \cap Nat
    /\ \A c \in DOMAIN varying_irs :
           varying_irs[c].num_points = all_num_points[c]

\* The monomials of the degree in hand that are classified are the first of
\* sorted(argument_factorization.items()).
MonomialsInOrder ==
    pc = "terms" =>
        { b.ma_indices : b \in BlocksInHand } =
            { k \in DOMAIN argument_factorization :
                Cardinality({ k2 \in DOMAIN argument_factorization :
                                KeyLess(k2, k) }) < terms_done }

\* A list of blocks is in the order of the degrees and, within a degree, of
\* the keys of the monomials.
ListInOrder(blocks) ==
    \A i, j \in DOMAIN blocks :
        i < j =>
            \/ blocks[i].num_points < blocks[j].num_points
            \/ /\ blocks[i].num_points = blocks[j].num_points
               /\ KeyLess(blocks[i].ma_indices, blocks[j].ma_indices)

BlocksInOrder ==
    /\ ListInOrder(pir_block_contributions)
    /\ ListInOrder(block_contributions)
    /\ \A c \in DOMAIN varying_irs :
           ListInOrder(varying_irs[c].block_contributions)

\* A step gives a new table the number of the tables its cache held.
NamesInOrder ==
    /\ CacheCounts(preintegrated_blocks, preintegrated_blocks', "PI")
    /\ CacheCounts(premultiplied_blocks, premultiplied_blocks', "PM")

\* C26: the degrees are processed one at a time in ascending order of their
\* number of points, whatever the order in which the integrands are handed
\* over, and the monomials of a degree in ascending order of their keys, so
\* that the PI and PM names, the order of the shared piecewise vertices and
\* the blocks are the same for the same integrands.
C26_Order ==
    /\ [](AscendingDegrees /\ DegreesInOrder /\ MonomialsInOrder
             /\ BlocksInOrder /\ SharedListsAgree)
    /\ [][NamesInOrder /\ FirstDiscoveryKept]_vars

\* C26 happens: the integrands came with the larger number of points first,
\* the degree of the smaller number is finished and two monomials of the
\* other are classified.
C26_Witness ==
    /\ integrands_keys = << 2, 1 >>
    /\ Len(varying_irs) = 1
    /\ varying_irs[1].num_points = 1
    /\ pc = "terms"
    /\ case = 2
    /\ terms_done = 2

====
